---- MODULE Spec2Model ----
(***************************************************************************)
(* Model of the ModelDeployment operator (src/operator/main.py): the three *)
(* manifest builders, the four handlers (create, update, delete, timer)    *)
(* and the cluster objects and stored status they act on.                  *)
(*                                                                         *)
(* Python dictionaries are records; a key that may be absent is an option: *)
(* None == <<>> and Some(v) == <<v>>.  The cluster answers every call with *)
(* an HTTP status code; a pass is given the index of the call (if any)     *)
(* that the cluster answers with a server error.  Timestamps (lastUpdated, *)
(* lastTransitionTime) are left out of the status.                         *)
(*                                                                         *)
(* Passes of one instance run one at a time.  The create trigger comes for *)
(* a new instance, or again for a live one with the spec it has; a delete  *)
(* handler that raised is delivered again, and nothing else is, until it   *)
(* ends without raising.  Between passes the cluster may report another    *)
(* ready count for the workload and the autoscaler may scale it.  last and *)
(* prev record the last pass and a summary of the one before it.           *)
(*                                                                         *)
(* In the specifications of single steps a pass is one cluster call at a   *)
(* time: run holds the passes in flight, one for each worker of the        *)
(* framework, and serial says whether the framework runs the passes of an  *)
(* instance one at a time.  No call is answered by a server error there.   *)
(***************************************************************************)
EXTENDS Integers, Sequences, FiniteSets, TLC

VARIABLES cr, cluster, status, last, prev, run, serial, registry, server

vars == <<cr, cluster, status, last, prev, run, serial, registry, server>>

\* the state of the operator, and that of the two services beside it
operator == <<cr, cluster, status, last, prev, run>>
services == <<registry, server>>

\* ------------------------------------------------------------------ bounds

MaxReplicas == 1

\* ------------------------------------------------------------------ options

None == <<>>
Some(v) == <<v>>
IsSome(o) == Len(o) = 1
IsNone(o) == Len(o) = 0
Val(o) == o[1]
\* dict.get(key, default)
Get(o, default) == IF IsSome(o) THEN Val(o) ELSE default

\* str(n) for the small integers of the model
ToStr(n) == <<"0", "1", "2", "3", "4", "5", "6", "7", "8", "9">>[n + 1]

Names == {"iris"}
Namespace == "default"

Kinds == {"Deployment", "Service", "HPA"}

\* the model version an instance is given
Versions == {1}

\* the most cluster calls one pass makes (the update handler: two patches, the
\* autoscaler read, its patch or delete, and the create of the 404 branch)
MaxCalls == 5

\* ------------------------------------------------------------------ specs

DefaultAutoscaling == [enabled |-> None, minReplicas |-> None,
                       maxReplicas |-> None,
                       targetCPUUtilizationPercentage |-> None]

\* autoscaling switched off and switched on (minReplicas, maxReplicas and the
\* CPU target left to their defaults)
AutoscalingSet ==
    { Some([DefaultAutoscaling EXCEPT !.enabled = Some(FALSE)]),
      Some([DefaultAutoscaling EXCEPT !.enabled = Some(TRUE)]) }

SpecSet ==
    [ modelName : {"iris-classifier"},
      modelVersion : Versions,
      replicas : {Some(r) : r \in 0..MaxReplicas},
      resources : {None},
      environment : {None},
      autoscaling : AutoscalingSet ]

\* every shape of the autoscaling block: absent, or with each of its keys
\* absent or given
AutoscalingShapes ==
    {None} \cup
    { Some(a) : a \in [ enabled : {None, Some(FALSE), Some(TRUE)},
                        minReplicas : {None, Some(2)},
                        maxReplicas : {None, Some(3)},
                        targetCPUUtilizationPercentage : {None, Some(50)} ] }

\* every shape of the resources block: absent, or with requests and limits
\* absent or given with either key, both or none
ResourceShapes ==
    {None} \cup
    { Some(r) : r \in [ requests : {None} \cup
                                      { Some(d) : d \in [ memory : {None, Some("1Gi")},
                                                          cpu : {None, Some("100m")} ] },
                        limits : {None} \cup
                                    { Some(d) : d \in [ memory : {None, Some("2Gi")},
                                                        cpu : {None, Some("1") } ] } ] }

\* the specs the builders are given: every shape of the autoscaling block
\* with the resources block absent, and every shape of the resources block
\* with autoscaling switched on
BuildSpecSet ==
    [ modelName : {"iris-classifier"},
      modelVersion : Versions,
      replicas : {None} \cup {Some(r) : r \in 0..MaxReplicas},
      resources : {None},
      environment : {None, Some("production")},
      autoscaling : AutoscalingShapes ]
    \cup
    [ modelName : {"iris-classifier"},
      modelVersion : Versions,
      replicas : {None} \cup {Some(r) : r \in 0..MaxReplicas},
      resources : ResourceShapes,
      environment : {None, Some("production")},
      autoscaling : {Some([DefaultAutoscaling EXCEPT !.enabled = Some(TRUE)])} ]

\* ------------------------------------------------------------------ builders

DeploymentName(name) == name \o "-inference"

\* ServiceName built on the workload's name in the place of the instance's
ServiceName_fromDeployment(name) == DeploymentName(name) \o "-service"

ServiceName(name) == name \o "-service"

\* HpaName that leaves the instance's name out
HpaName_shared(name) == "model-hpa"

HpaName(name) == name \o "-hpa"

\* a resources dictionary: each of its two keys present (Some) or not
DefaultRequests == [memory |-> Some("256Mi"), cpu |-> Some("250m")]
DefaultLimits == [memory |-> Some("512Mi"), cpu |-> Some("500m")]

create_inference_deployment(spec, name, namespace) ==
    LET deployment_name == DeploymentName(name)
        model_name == spec.modelName
        model_version == spec.modelVersion
        replicas == Get(spec.replicas, 1)
        resources == Get(spec.resources, [requests |-> None, limits |-> None])
        environment == Get(spec.environment, "development")
        resource_requests == Get(resources.requests, DefaultRequests)
        resource_limits == Get(resources.limits, DefaultLimits)
    IN  [ kind |-> "Deployment",
          name |-> deployment_name,
          namespace |-> namespace,
          labels |-> [ app |-> deployment_name,
                       component |-> "inference-server",
                       modelName |-> model_name,
                       modelVersion |-> ToStr(model_version),
                       environment |-> environment,
                       managedBy |-> "ml-operator" ],
          replicas |-> replicas,
          selector |-> [app |-> deployment_name],
          templateLabels |-> [ app |-> deployment_name,
                               component |-> "inference-server",
                               modelName |-> model_name,
                               modelVersion |-> ToStr(model_version),
                               environment |-> environment ],
          env |-> [ MODEL_NAME |-> model_name,
                    MODEL_VERSION |-> ToStr(model_version),
                    MODEL_REGISTRY_URL |-> "http://model-registry-service:8000",
                    INFERENCE_PORT |-> "8001",
                    ENVIRONMENT |-> environment ],
          requests |-> resource_requests,
          limits |-> resource_limits ]

\* create_inference_service with the selector on the endpoint's own name
create_inference_service_ownSelector(spec, name, namespace) ==
    LET deployment_name == DeploymentName(name)
        service_name == ServiceName(name)
        model_name == spec.modelName
        model_version == spec.modelVersion
        environment == Get(spec.environment, "development")
    IN  [ kind |-> "Service",
          name |-> service_name,
          namespace |-> namespace,
          labels |-> [ app |-> deployment_name,
                       component |-> "inference-server",
                       modelName |-> model_name,
                       modelVersion |-> ToStr(model_version),
                       environment |-> environment,
                       managedBy |-> "ml-operator" ],
          selector |-> [app |-> service_name],
          port |-> 8001,
          type |-> "ClusterIP" ]

create_inference_service(spec, name, namespace) ==
    LET deployment_name == DeploymentName(name)
        service_name == ServiceName(name)
        model_name == spec.modelName
        model_version == spec.modelVersion
        environment == Get(spec.environment, "development")
    IN  [ kind |-> "Service",
          name |-> service_name,
          namespace |-> namespace,
          labels |-> [ app |-> deployment_name,
                       component |-> "inference-server",
                       modelName |-> model_name,
                       modelVersion |-> ToStr(model_version),
                       environment |-> environment,
                       managedBy |-> "ml-operator" ],
          selector |-> [app |-> deployment_name],
          port |-> 8001,
          type |-> "ClusterIP" ]

\* create_hpa without its test of "enabled": a manifest for every spec
create_hpa_unconditional(spec, name, namespace) ==
    LET autoscaling == Get(spec.autoscaling, DefaultAutoscaling)
    IN  Some([ kind |-> "HPA",
               name |-> HpaName(name),
               namespace |-> namespace,
               labels |-> [ app |-> DeploymentName(name),
                            component |-> "inference-server",
                            managedBy |-> "ml-operator" ],
               scaleTargetRef |-> DeploymentName(name),
               minReplicas |-> Get(autoscaling.minReplicas, 1),
               maxReplicas |-> Get(autoscaling.maxReplicas, 5),
               targetCPUUtilizationPercentage |->
                   Get(autoscaling.targetCPUUtilizationPercentage, 70) ])

\* create_hpa that takes an absent "enabled" key for true
create_hpa_enabledByDefault(spec, name, namespace) ==
    LET autoscaling == Get(spec.autoscaling, DefaultAutoscaling)
    IN  IF ~Get(autoscaling.enabled, TRUE)
        THEN None
        ELSE create_hpa_unconditional(spec, name, namespace)

\* None when autoscaling is absent, disabled or has no "enabled" key
create_hpa(spec, name, namespace) ==
    LET autoscaling == Get(spec.autoscaling, DefaultAutoscaling)
    IN  IF ~Get(autoscaling.enabled, FALSE)
        THEN None
        ELSE Some([ kind |-> "HPA",
                    name |-> HpaName(name),
                    namespace |-> namespace,
                    labels |-> [ app |-> DeploymentName(name),
                                 component |-> "inference-server",
                                 managedBy |-> "ml-operator" ],
                    scaleTargetRef |-> DeploymentName(name),
                    minReplicas |-> Get(autoscaling.minReplicas, 1),
                    maxReplicas |-> Get(autoscaling.maxReplicas, 5),
                    targetCPUUtilizationPercentage |->
                        Get(autoscaling.targetCPUUtilizationPercentage, 70) ])

\* ------------------------------------------------------------------ cluster

\* the names an instance may bear
NameSet == {"iris", "wine"}

ResNames == UNION { {DeploymentName(n), ServiceName(n), HpaName(n)} : n \in NameSet }

EmptyCluster == [k \in Kinds |-> [r \in ResNames |-> None]]

\* the object the cluster stores for a manifest; a new workload has no
\* ready replica count yet
Stored(body) == [body |-> body, ready |-> None]

Exists(cl, kind, rname) == IsSome(cl[kind][rname])

\* str(e) of the ApiException the client raises for a status code
ErrText(code) ==
    CASE code = 404 -> "(404) Reason: Not Found"
      [] code = 409 -> "(409) Reason: Conflict"
      [] OTHER -> "(500) Reason: Internal Server Error"

\* create_namespaced_*: 409 when the object exists already
ApiCreate(cl, kind, body, faulty) ==
    IF faulty THEN [cl |-> cl, code |-> 500]
    ELSE IF Exists(cl, kind, body.name) THEN [cl |-> cl, code |-> 409]
    ELSE [cl |-> [cl EXCEPT ![kind][body.name] = Some(Stored(body))],
          code |-> 201]

\* patch_namespaced_*: 404 when the object does not exist; the patch carries
\* the whole manifest and leaves the object's observed status alone
ApiPatch(cl, kind, rname, body, faulty) ==
    IF faulty THEN [cl |-> cl, code |-> 500]
    ELSE IF ~Exists(cl, kind, rname) THEN [cl |-> cl, code |-> 404]
    ELSE [cl |-> [cl EXCEPT ![kind][rname] =
                     Some([Val(@) EXCEPT !.body = body])],
          code |-> 200]

\* delete_namespaced_*: 404 when the object does not exist
ApiDelete(cl, kind, rname, faulty) ==
    IF faulty THEN [cl |-> cl, code |-> 500]
    ELSE IF ~Exists(cl, kind, rname) THEN [cl |-> cl, code |-> 404]
    ELSE [cl |-> [cl EXCEPT ![kind][rname] = None], code |-> 200]

\* read_namespaced_*: 404 when the object does not exist
ApiRead(cl, kind, rname, faulty) ==
    IF faulty THEN [cl |-> cl, code |-> 500]
    ELSE IF ~Exists(cl, kind, rname) THEN [cl |-> cl, code |-> 404]
    ELSE [cl |-> cl, code |-> 200]

\* a call made to the cluster and the status code it was answered with
Call(verb, kind, namespace, rname, code) ==
    [ verb |-> verb, kind |-> kind, namespace |-> namespace, name |-> rname,
      code |-> code ]

\* ------------------------------------------------------------------ status

EmptyStatus ==
    [ phase |-> None, deploymentName |-> None, serviceName |-> None,
      replicas |-> None, readyReplicas |-> None, conditions |-> <<>> ]

Condition(st, reason, message) ==
    [type |-> "Ready", status |-> st, reason |-> reason, message |-> message]

\* FailedStatus with the conditions list left out of the dictionary
FailedStatus_noCondition(reason, message) ==
    [EmptyStatus EXCEPT !.phase = Some("Failed")]

\* the dictionary a handler returns when its try block raised
FailedStatus(reason, message) ==
    [EmptyStatus EXCEPT !.phase = Some("Failed"),
                        !.conditions = <<Condition("False", reason, message)>>]

\* the dictionary the create and update handlers return on success
SuccessStatus(deployment_name, service_name, replicas, reason, message) ==
    [EmptyStatus EXCEPT !.phase = Some("Running"),
                        !.deploymentName = Some(deployment_name),
                        !.serviceName = Some(service_name),
                        !.replicas = Some(replicas),
                        !.conditions = <<Condition("True", reason, message)>>]

\* what a pass leaves: the cluster, the calls it made in order, the status it
\* returned (None: nothing returned), the error it raised (None: none) and,
\* for the timer, what it observed
Outcome(cl, calls, ret, raised, obs) ==
    [cl |-> cl, calls |-> calls, ret |-> ret, raised |-> raised, obs |-> obs]

\* ------------------------------------------------------------------ handlers

\* CreateFailed with a fixed message: str(e) is not put into it
CreateFailed_noText(cl, calls, code) ==
    Outcome(cl, calls,
            Some(FailedStatus("CreationFailed", "Failed to create resources")),
            None, None)

\* CreateFailed with a rollback: what the pass created is deleted again
CreateFailed_rollback(cl, calls, code) ==
    LET created(k, r) ==
            \E i \in 1..Len(calls) :
                calls[i].kind = k /\ calls[i].name = r /\ calls[i].code = 201
    IN  Outcome([k \in Kinds |->
                    [r \in ResNames |-> IF created(k, r) THEN None ELSE cl[k][r]]],
                calls,
                Some(FailedStatus("CreationFailed",
                                  "Failed to create resources: " \o ErrText(code))),
                None, None)

\* the except branch of the create handler
CreateFailed(cl, calls, code) ==
    Outcome(cl, calls,
            Some(FailedStatus("CreationFailed",
                              "Failed to create resources: " \o ErrText(code))),
            None, None)

create_model_deployment(cl, spec, name, namespace, fault) ==
    LET deployment == create_inference_deployment(spec, name, namespace)
        r1 == ApiCreate(cl, "Deployment", deployment, fault = 1)
        c1 == <<Call("create", "Deployment", namespace, deployment.name, r1.code)>>
        service == create_inference_service(spec, name, namespace)
        r2 == ApiCreate(r1.cl, "Service", service, fault = 2)
        c2 == c1 \o <<Call("create", "Service", namespace, service.name, r2.code)>>
        hpa == create_hpa(spec, name, namespace)
        r3 == ApiCreate(r2.cl, "HPA", Val(hpa), fault = 3)
        c3 == c2 \o <<Call("create", "HPA", namespace, Val(hpa).name, r3.code)>>
        done(rcl, calls) ==
            Outcome(rcl, calls,
                    Some(SuccessStatus(deployment.name, service.name,
                                       Get(spec.replicas, 1),
                                       "DeploymentCreated",
                                       "ModelDeployment resources created successfully")),
                    None, None)
    IN  IF r1.code # 201 THEN CreateFailed(r1.cl, c1, r1.code)
        ELSE IF r2.code # 201 THEN CreateFailed(r2.cl, c2, r2.code)
        ELSE IF IsNone(hpa) THEN done(r2.cl, c2)
        ELSE IF r3.code # 201 THEN CreateFailed(r3.cl, c3, r3.code)
        ELSE done(r3.cl, c3)

\* UpdateFailed with the create handler's reason and message
UpdateFailed_asCreate(cl, calls, code) ==
    Outcome(cl, calls,
            Some(FailedStatus("CreationFailed",
                              "Failed to create resources: " \o ErrText(code))),
            None, None)

\* the except branch of the update handler
UpdateFailed(cl, calls, code) ==
    Outcome(cl, calls,
            Some(FailedStatus("UpdateFailed",
                              "Failed to update resources: " \o ErrText(code))),
            None, None)

\* HpaAction without the delete: an autoscaler no longer desired is left
HpaAction_noDelete(found, desired) ==
    IF found THEN (IF desired THEN "patch" ELSE "none")
    ELSE (IF desired THEN "create" ELSE "none")

\* what the update handler does about the autoscaler once its read was
\* answered: found (200) or not found (404)
HpaAction(found, desired) ==
    IF found THEN (IF desired THEN "patch" ELSE "delete")
    ELSE (IF desired THEN "create" ELSE "none")

\* DesiredSpec that keeps the replica count of the old spec
DesiredSpec_keepReplicas(spec, old) == [spec EXCEPT !.replicas = old.replicas]

\* the spec the update handler gives the three builders: the new one (the
\* old one is read for a log line only)
DesiredSpec(spec, old) == spec

update_model_deployment(cl, new, name, namespace, old, fault) ==
    LET spec == DesiredSpec(new, old)
        deployment_name == DeploymentName(name)
        deployment == create_inference_deployment(spec, name, namespace)
        r1 == ApiPatch(cl, "Deployment", deployment_name, deployment, fault = 1)
        c1 == <<Call("patch", "Deployment", namespace, deployment_name, r1.code)>>
        service == create_inference_service(spec, name, namespace)
        service_name == ServiceName(name)
        r2 == ApiPatch(r1.cl, "Service", service_name, service, fault = 2)
        c2 == c1 \o <<Call("patch", "Service", namespace, service_name, r2.code)>>
        hpa == create_hpa(spec, name, namespace)
        hpa_name == HpaName(name)
        r3 == ApiRead(r2.cl, "HPA", hpa_name, fault = 3)
        c3 == c2 \o <<Call("read", "HPA", namespace, hpa_name, r3.code)>>
        \* the read succeeded
        r4p == ApiPatch(r3.cl, "HPA", hpa_name, Val(hpa), fault = 4)
        c4p == c3 \o <<Call("patch", "HPA", namespace, hpa_name, r4p.code)>>
        r4d == ApiDelete(r3.cl, "HPA", hpa_name, fault = 4)
        c4d == c3 \o <<Call("delete", "HPA", namespace, hpa_name, r4d.code)>>
        \* the 404 handler, entered from the read, the patch or the delete
        create_after(rcl, calls, k) ==
            LET rc == ApiCreate(rcl, "HPA", Val(hpa), fault = k)
                cc == calls \o <<Call("create", "HPA", namespace, hpa_name, rc.code)>>
            IN  [r |-> rc, calls |-> cc]
        done(rcl, calls) ==
            Outcome(rcl, calls,
                    Some(SuccessStatus(deployment_name, ServiceName(name),
                                       Get(spec.replicas, 1),
                                       "DeploymentUpdated",
                                       "ModelDeployment updated successfully")),
                    None, None)
        on404(rcl, calls, k) ==
            IF IsNone(hpa) THEN done(rcl, calls)
            ELSE LET a == create_after(rcl, calls, k)
                 IN  IF a.r.code = 201 THEN done(a.r.cl, a.calls)
                     ELSE UpdateFailed(a.r.cl, a.calls, a.r.code)
    IN  IF r1.code # 200 THEN UpdateFailed(r1.cl, c1, r1.code)
        ELSE IF r2.code # 200 THEN UpdateFailed(r2.cl, c2, r2.code)
        ELSE IF r3.code \notin {200, 404} THEN UpdateFailed(r3.cl, c3, r3.code)
        ELSE LET action == HpaAction(r3.code = 200, IsSome(hpa))
             IN  IF action = "patch"
                 THEN IF r4p.code = 200 THEN done(r4p.cl, c4p)
                      ELSE IF r4p.code = 404 THEN on404(r4p.cl, c4p, 5)
                      ELSE UpdateFailed(r4p.cl, c4p, r4p.code)
                 ELSE IF action = "delete"
                 THEN IF r4d.code = 200 THEN done(r4d.cl, c4d)
                      ELSE IF r4d.code = 404 THEN on404(r4d.cl, c4d, 5)
                      ELSE UpdateFailed(r4d.cl, c4d, r4d.code)
                 ELSE IF action = "create"
                 THEN LET a == create_after(r3.cl, c3, 4)
                      IN  IF a.r.code = 201 THEN done(a.r.cl, a.calls)
                          ELSE UpdateFailed(a.r.cl, a.calls, a.r.code)
                 ELSE done(r3.cl, c3)

\* DeleteTolerated without the test for 404: every error raises
DeleteTolerated_strict(code) == code = 200

\* a deletion that does not raise: done, or answered 404
DeleteTolerated(code) == code \in {200, 404}

\* the handler logs and re-raises: no status is returned
DeleteRaised(cl, calls, code) ==
    Outcome(cl, calls, None, Some(ErrText(code)), None)

delete_model_deployment(cl, spec, name, namespace, fault) ==
    LET deployment_name == DeploymentName(name)
        service_name == ServiceName(name)
        hpa_name == HpaName(name)
        r1 == ApiDelete(cl, "Deployment", deployment_name, fault = 1)
        c1 == <<Call("delete", "Deployment", namespace, deployment_name, r1.code)>>
        r2 == ApiDelete(r1.cl, "Service", service_name, fault = 2)
        c2 == c1 \o <<Call("delete", "Service", namespace, service_name, r2.code)>>
        r3 == ApiDelete(r2.cl, "HPA", hpa_name, fault = 3)
        c3 == c2 \o <<Call("delete", "HPA", namespace, hpa_name, r3.code)>>
    IN  IF ~DeleteTolerated(r1.code) THEN DeleteRaised(r1.cl, c1, r1.code)
        ELSE IF ~DeleteTolerated(r2.code) THEN DeleteRaised(r2.cl, c2, r2.code)
        ELSE IF ~DeleteTolerated(r3.code) THEN DeleteRaised(r3.cl, c3, r3.code)
        ELSE Outcome(r3.cl, c3, None, None, None)

\* NewPhase with >= in the place of ==
NewPhase_atLeast(ready_replicas, desired_replicas) ==
    IF ready_replicas >= desired_replicas THEN "Running" ELSE "Updating"

\* NewPhase that asks for any ready replica, not for all
NewPhase_anyReady(ready_replicas, desired_replicas) ==
    IF ready_replicas > 0 THEN "Running" ELSE "Updating"

\* new_phase of the timer
NewPhase(ready_replicas, desired_replicas) ==
    IF ready_replicas = desired_replicas THEN "Running" ELSE "Updating"

\* StatusChanged reading the key 'replicas' in the place of 'readyReplicas'
StatusChanged_wrongKey(st, new_phase, ready_replicas) ==
    Get(st.phase, "Unknown") # new_phase \/ st.replicas # Some(ready_replicas)

\* StatusChanged without its test of the ready count
StatusChanged_phaseOnly(st, new_phase, ready_replicas) ==
    Get(st.phase, "Unknown") # new_phase

\* StatusChanged that leaves a stored phase Failed alone
StatusChanged_stickyFailed(st, new_phase, ready_replicas) ==
    /\ st.phase # Some("Failed")
    /\ Get(st.phase, "Unknown") # new_phase \/ st.readyReplicas # Some(ready_replicas)

\* the timer's test for a status write
StatusChanged(st, new_phase, ready_replicas) ==
    Get(st.phase, "Unknown") # new_phase \/ st.readyReplicas # Some(ready_replicas)

\* ReadyStatus with the test of the phase inverted
ReadyStatus_inverted(new_phase) == IF new_phase # "Running" THEN "True" ELSE "False"

\* the status of the Ready condition the timer writes
ReadyStatus(new_phase) == IF new_phase = "Running" THEN "True" ELSE "False"

\* HealthCheckFailed that re-raises as the delete handler does: no status
HealthCheckFailed_reraise(cl, calls, code) ==
    Outcome(cl, calls, None, Some(ErrText(code)), None)

\* the except branch of the timer
HealthCheckFailed(cl, calls, code) ==
    Outcome(cl, calls,
            Some(FailedStatus("HealthCheckFailed",
                              "Health check failed: " \o ErrText(code))),
            None, None)

monitor_deployments(cl, spec, name, namespace, st, fault) ==
    LET deployment_name == DeploymentName(name)
        r1 == ApiRead(cl, "Deployment", deployment_name, fault = 1)
        c1 == <<Call("read", "Deployment", namespace, deployment_name, r1.code)>>
        deployment == Val(r1.cl["Deployment"][deployment_name])
        \* deployment.status.ready_replicas or 0
        ready_replicas == Get(deployment.ready, 0)
        desired_replicas == deployment.body.replicas
        new_phase == NewPhase(ready_replicas, desired_replicas)
        obs == Some([desired |-> desired_replicas, ready |-> deployment.ready,
                     newPhase |-> new_phase])
    IN  IF r1.code # 200
        THEN HealthCheckFailed(r1.cl, c1, r1.code)
        ELSE IF StatusChanged(st, new_phase, ready_replicas)
        THEN Outcome(r1.cl, c1,
                     Some([EmptyStatus EXCEPT
                             !.phase = Some(new_phase),
                             !.replicas = Some(desired_replicas),
                             !.readyReplicas = Some(ready_replicas),
                             !.conditions =
                                <<Condition(ReadyStatus(new_phase),
                                            "HealthCheck",
                                            ToStr(ready_replicas) \o "/" \o
                                            ToStr(desired_replicas) \o
                                            " replicas ready")>>]),
                     None, obs)
        ELSE Outcome(r1.cl, c1, None, None, obs)

\* ------------------------------------------------------------------ state

\* the kinds of child resource of instance name that exist in cl
ChildKinds(cl, name) ==
    {k \in Kinds :
        Exists(cl, k, CASE k = "Deployment" -> DeploymentName(name)
                        [] k = "Service" -> ServiceName(name)
                        [] OTHER -> HpaName(name))}

\* the record of a pass: the handler's arguments old (update) and status
\* (timer), the calls it made, what it returned or raised, what it observed
NoPass ==
    [ kind |-> "none", name |-> "", old |-> None, status |-> None,
      calls |-> <<>>, ret |-> None, raised |-> None, obs |-> None ]

\* a pass answered by a server error
Faulted(calls) == \E i \in 1..Len(calls) : calls[i].code = 500

\* a pass that raised or returned phase Failed
FailedPass(p) ==
    IsSome(p.raised) \/ (IsSome(p.ret) /\ Val(p.ret).phase = Some("Failed"))

\* a call that changed the cluster
Changed(c) == c.verb # "read" /\ c.code \in {200, 201}

\* what is kept of the pass before the last one
Summary(p) ==
    [ kind |-> p.kind, name |-> p.name,
      failed |-> FailedPass(p),
      partial |-> FailedPass(p) /\ \E i \in 1..Len(p.calls) : Changed(p.calls[i]),
      obs |-> IF IsSome(p.obs)
              THEN Some([desired |-> Val(p.obs).desired,
                         ready |-> Get(Val(p.obs).ready, 0)])
              ELSE None ]

\* the status sink: a returned status replaces the stored one, no return
\* value leaves it
StoreStatus(st, ret) == IF IsSome(ret) THEN Val(ret) ELSE st

Live(n) == IsSome(cr[n]) /\ ~Val(cr[n]).deleting

\* the workers of the framework, and no pass in flight on any of them
Workers == {1, 2}
NoRun == [w \in Workers |-> None]

\* the model registry before its first request: no row in either table, no
\* object in the bucket, no handler in flight
EmptyRegistry ==
    [ models |-> {}, versions |-> {}, next_id |-> 1, files |-> {},
      reqs |-> [w \in Workers |-> None],
      uploads |-> 0, order |-> <<>>, deleted |-> FALSE,
      answer |-> [op |-> "none", code |-> 0] ]

\* the inference server at module load: no model, the counters at 0, no
\* request answered
NoRequests ==
    [ started |-> FALSE, model |-> None, request_count |-> 0,
      prediction_count |-> 0, error_count |-> 0,
      failed |-> 0, answer |-> [code |-> 0] ]

\* the two services while the specification is about the operator
ServicesIdle ==
    /\ registry = EmptyRegistry
    /\ server = NoRequests

Init ==
    /\ cr = [n \in Names |-> None]
    /\ cluster = EmptyCluster
    /\ status = [n \in Names |-> EmptyStatus]
    /\ last = NoPass
    /\ prev = Summary(NoPass)
    /\ run = NoRun
    /\ serial = TRUE
    /\ ServicesIdle

\* the bookkeeping every pass shares; a fault index is one of a call the
\* pass makes
Pass(kind, n, old, st, fault, res) ==
    /\ fault = 0 \/ Faulted(res.calls)
    /\ cluster' = res.cl
    /\ last' = [ kind |-> kind, name |-> n, old |-> old, status |-> st,
                 calls |-> res.calls, ret |-> res.ret, raised |-> res.raised,
                 obs |-> res.obs ]
    /\ prev' = Summary(last)
    /\ UNCHANGED <<run, serial, services>>

\* the create trigger: for a new instance, or again for a live one with the
\* spec it has
CreatePass(n, spec, fault) ==
    /\ \/ IsNone(cr[n])
       \/ Live(n) /\ Val(cr[n]).spec = spec
    /\ \E res \in {create_model_deployment(cluster, spec, n, Namespace, fault)} :
           /\ Pass("create", n, None, None, fault, res)
           /\ status' = [status EXCEPT ![n] = StoreStatus(@, res.ret)]
    /\ cr' = [cr EXCEPT ![n] = Some([spec |-> spec, deleting |-> FALSE])]

\* the update trigger: the instance's spec is replaced by spec
UpdatePass(n, spec, fault) ==
    /\ Live(n)
    /\ \E res \in {update_model_deployment(cluster, spec, n, Namespace,
                                          Val(cr[n]).spec, fault)} :
           /\ Pass("update", n, Some(Val(cr[n]).spec), None, fault, res)
           /\ status' = [status EXCEPT ![n] = StoreStatus(@, res.ret)]
    /\ cr' = [cr EXCEPT ![n] = Some([spec |-> spec, deleting |-> FALSE])]

\* the delete trigger: the instance goes when the handler ends without
\* raising, and the trigger is delivered again when it raised
DeletePass(n, fault) ==
    /\ IsSome(cr[n])
    /\ LET spec == Val(cr[n]).spec
           res == delete_model_deployment(cluster, spec, n, Namespace, fault)
       IN  /\ Pass("delete", n, None, None, fault, res)
           /\ IF IsNone(res.raised)
              THEN /\ cr' = [cr EXCEPT ![n] = None]
                   /\ status' = [status EXCEPT ![n] = EmptyStatus]
              ELSE /\ cr' = [cr EXCEPT ![n] = Some([spec |-> spec,
                                                    deleting |-> TRUE])]
                   /\ status' = status

\* the timer tick of a live instance
TimerPass(n, fault) ==
    /\ Live(n)
    /\ LET spec == Val(cr[n]).spec
           res == monitor_deployments(cluster, spec, n, Namespace, status[n], fault)
       IN  /\ Pass("timer", n, None, Some(status[n]), fault, res)
           /\ status' = [status EXCEPT ![n] = StoreStatus(@, res.ret)]
    /\ cr' = cr

\* the cluster reports a ready replica count for the workload
SetReady(n, r) ==
    /\ Exists(cluster, "Deployment", DeploymentName(n))
    /\ Val(cluster["Deployment"][DeploymentName(n)]).ready # r
    /\ cluster' = [cluster EXCEPT !["Deployment"][DeploymentName(n)] =
                      Some([Val(@) EXCEPT !.ready = r])]
    /\ UNCHANGED <<cr, status, last, prev, run, serial, services>>

\* the autoscaler scales the workload it targets, within its range
Scale(n, r) ==
    /\ Exists(cluster, "Deployment", DeploymentName(n))
    /\ Exists(cluster, "HPA", HpaName(n))
    /\ LET hpa == Val(cluster["HPA"][HpaName(n)]).body
       IN  /\ hpa.scaleTargetRef = DeploymentName(n)
           /\ hpa.minReplicas <= r /\ r <= hpa.maxReplicas
    /\ Val(cluster["Deployment"][DeploymentName(n)]).body.replicas # r
    /\ cluster' = [cluster EXCEPT !["Deployment"][DeploymentName(n)] =
                      Some([Val(@) EXCEPT !.body.replicas = r])]
    /\ UNCHANGED <<cr, status, last, prev, run, serial, services>>

\* the ready counts the cluster reports: the field is absent while no
\* replica is ready
ReadySet == {None} \cup {Some(r) : r \in 1..MaxReplicas}

Next ==
    \/ \E n \in Names, spec \in SpecSet, fault \in 0..MaxCalls :
          CreatePass(n, spec, fault)
    \/ \E n \in Names, spec \in SpecSet, fault \in 0..MaxCalls :
          UpdatePass(n, spec, fault)
    \/ \E n \in Names, fault \in 0..MaxCalls : DeletePass(n, fault)
    \/ \E n \in Names, fault \in 0..MaxCalls : TimerPass(n, fault)
    \/ \E n \in Names, r \in ReadySet : SetReady(n, r)
    \/ \E n \in Names, r \in 0..MaxReplicas : Scale(n, r)

Spec == Init /\ [][Next]_vars

\* the four triggers for one instance that bears any of the names (the
\* cluster's own steps, which build no manifest and make no call, left out)
InitNamed ==
    /\ \E nm \in NameSet :
          /\ cr = [n \in {nm} |-> None]
          /\ status = [n \in {nm} |-> EmptyStatus]
    /\ cluster = EmptyCluster
    /\ last = NoPass
    /\ prev = Summary(NoPass)
    /\ run = NoRun
    /\ serial = TRUE
    /\ ServicesIdle

NextNamed ==
    \/ \E n \in DOMAIN cr, spec \in SpecSet, fault \in 0..MaxCalls :
          CreatePass(n, spec, fault)
    \/ \E n \in DOMAIN cr, spec \in SpecSet, fault \in 0..MaxCalls :
          UpdatePass(n, spec, fault)
    \/ \E n \in DOMAIN cr, fault \in 0..MaxCalls : DeletePass(n, fault)
    \/ \E n \in DOMAIN cr, fault \in 0..MaxCalls : TimerPass(n, fault)

SpecNamed == InitNamed /\ [][NextNamed]_vars

\* the two specs of the scenario: version 1 with two replicas and autoscaling
\* off, then version 2 with autoscaling on (1 to 5 replicas, CPU target 70)
ScenarioCreate ==
    [ modelName |-> "iris-classifier", modelVersion |-> 1,
      replicas |-> Some(2), resources |-> None, environment |-> None,
      autoscaling |-> Some([DefaultAutoscaling EXCEPT !.enabled = Some(FALSE)]) ]

ScenarioUpdate ==
    [ modelName |-> "iris-classifier", modelVersion |-> 2,
      replicas |-> Some(2), resources |-> None, environment |-> None,
      autoscaling |-> Some([ enabled |-> Some(TRUE),
                             minReplicas |-> Some(1),
                             maxReplicas |-> Some(5),
                             targetCPUUtilizationPercentage |-> Some(70) ]) ]

\* the program given the two specs of the scenario, the workload having up
\* to two replicas
NextScenario ==
    \/ \E n \in Names, spec \in {ScenarioCreate, ScenarioUpdate},
          fault \in 0..MaxCalls : CreatePass(n, spec, fault)
    \/ \E n \in Names, spec \in {ScenarioCreate, ScenarioUpdate},
          fault \in 0..MaxCalls : UpdatePass(n, spec, fault)
    \/ \E n \in Names, fault \in 0..MaxCalls : DeletePass(n, fault)
    \/ \E n \in Names, fault \in 0..MaxCalls : TimerPass(n, fault)
    \/ \E n \in Names, r \in {None, Some(1), Some(2)} : SetReady(n, r)
    \/ \E n \in Names, r \in {1, 2} : Scale(n, r)

SpecScenario == Init /\ [][NextScenario]_vars

\* the create trigger for one instance, given every shape of spec the
\* builders read
NextBuild ==
    \E n \in DOMAIN cr, spec \in BuildSpecSet, fault \in 0..MaxCalls :
        CreatePass(n, spec, fault)

SpecBuild == InitNamed /\ [][NextBuild]_vars

\* ------------------------------------------------------------------ steps

\* a pass in flight: the handler's arguments, the calls made so far, whether
\* the handler has ended (done) and with what; alone says that no other pass
\* for the instance was in flight at any time of this one, stale counts how
\* far an update overtook a drift check after its read (1: it patched the
\* workload, 2: its status was written too)
Started(kind, name, spec, old, st, alone) ==
    [ kind |-> kind, name |-> name, spec |-> spec, old |-> old, status |-> st,
      calls |-> <<>>, ret |-> None, raised |-> None, obs |-> None,
      done |-> FALSE, alone |-> alone, stale |-> 0 ]

\* the pass goes on after a call that was answered
Goes(cl, p, calls) == [cl |-> cl, p |-> [p EXCEPT !.calls = calls]]

\* the handler ends with the outcome out
Ends(p, out) ==
    [ cl |-> out.cl,
      p |-> [p EXCEPT !.calls = out.calls, !.ret = out.ret,
                      !.raised = out.raised, !.obs = out.obs, !.done = TRUE] ]

\* the next call of the create handler, and its return when that was the
\* last one
create_step(cl, p) ==
    LET spec == p.spec
        name == p.name
        deployment == create_inference_deployment(spec, name, Namespace)
        service == create_inference_service(spec, name, Namespace)
        hpa == create_hpa(spec, name, Namespace)
        manifest == CASE Len(p.calls) = 0 -> deployment
                      [] Len(p.calls) = 1 -> service
                      [] OTHER -> Val(hpa)
        kind == CASE Len(p.calls) = 0 -> "Deployment"
                  [] Len(p.calls) = 1 -> "Service"
                  [] OTHER -> "HPA"
        r == ApiCreate(cl, kind, manifest, FALSE)
        calls == p.calls \o <<Call("create", kind, Namespace, manifest.name, r.code)>>
        last_call == Len(calls) = 3 \/ (Len(calls) = 2 /\ IsNone(hpa))
    IN  IF r.code # 201 THEN Ends(p, CreateFailed(r.cl, calls, r.code))
        ELSE IF last_call
        THEN Ends(p, Outcome(r.cl, calls,
                             Some(SuccessStatus(deployment.name, service.name,
                                                Get(spec.replicas, 1),
                                                "DeploymentCreated",
                                                "ModelDeployment resources created successfully")),
                             None, None))
        ELSE Goes(r.cl, p, calls)

\* NotFoundFolded that folds nothing: every error of the three calls raises
NotFoundFolded_never(code) == FALSE

\* the except branch around the autoscaler's read, patch and delete: a 404
\* is taken, every other error is raised again
NotFoundFolded(code) == code = 404

\* the next call of the update handler, and its return when that was the
\* last one
update_step(cl, p) ==
    LET spec == DesiredSpec(p.spec, Val(p.old))
        name == p.name
        deployment_name == DeploymentName(name)
        service_name == ServiceName(name)
        hpa_name == HpaName(name)
        deployment == create_inference_deployment(spec, name, Namespace)
        service == create_inference_service(spec, name, Namespace)
        hpa == create_hpa(spec, name, Namespace)
        with(verb, kind, rname, r) ==
            [r |-> r, calls |-> p.calls \o <<Call(verb, kind, Namespace, rname, r.code)>>]
        done(a) ==
            Ends(p, Outcome(a.r.cl, a.calls,
                            Some(SuccessStatus(deployment_name, service_name,
                                               Get(spec.replicas, 1),
                                               "DeploymentUpdated",
                                               "ModelDeployment updated successfully")),
                            None, None))
        failed(a) == Ends(p, UpdateFailed(a.r.cl, a.calls, a.r.code))
        goes(a) == Goes(a.r.cl, p, a.calls)
        \* what the handler does once the autoscaler's read was answered
        action == HpaAction(p.calls[3].code = 200, IsSome(hpa))
        create == with("create", "HPA", hpa_name, ApiCreate(cl, "HPA", Val(hpa), FALSE))
    IN  CASE Len(p.calls) = 0 ->
                LET a == with("patch", "Deployment", deployment_name,
                              ApiPatch(cl, "Deployment", deployment_name, deployment, FALSE))
                IN  IF a.r.code # 200 THEN failed(a) ELSE goes(a)
          [] Len(p.calls) = 1 ->
                LET a == with("patch", "Service", service_name,
                              ApiPatch(cl, "Service", service_name, service, FALSE))
                IN  IF a.r.code # 200 THEN failed(a) ELSE goes(a)
          [] Len(p.calls) = 2 ->
                LET a == with("read", "HPA", hpa_name,
                              ApiRead(cl, "HPA", hpa_name, FALSE))
                IN  IF a.r.code # 200 /\ ~NotFoundFolded(a.r.code) THEN failed(a)
                    ELSE IF HpaAction(a.r.code = 200, IsSome(hpa)) = "none"
                    THEN done(a)
                    ELSE goes(a)
          [] Len(p.calls) = 3 /\ action = "patch" ->
                LET a == with("patch", "HPA", hpa_name,
                              ApiPatch(cl, "HPA", hpa_name, Val(hpa), FALSE))
                IN  IF a.r.code = 200 THEN done(a)
                    ELSE IF NotFoundFolded(a.r.code)
                    THEN (IF IsNone(hpa) THEN done(a) ELSE goes(a))
                    ELSE failed(a)
          [] Len(p.calls) = 3 /\ action = "delete" ->
                LET a == with("delete", "HPA", hpa_name,
                              ApiDelete(cl, "HPA", hpa_name, FALSE))
                IN  IF a.r.code = 200 THEN done(a)
                    ELSE IF NotFoundFolded(a.r.code)
                    THEN (IF IsNone(hpa) THEN done(a) ELSE goes(a))
                    ELSE failed(a)
          \* the create of the 404 handler, entered from the read or from the
          \* patch
          [] OTHER ->
                IF create.r.code = 201 THEN done(create) ELSE failed(create)

\* the next call of the delete handler
delete_step(cl, p) ==
    LET name == p.name
        kind == CASE Len(p.calls) = 0 -> "Deployment"
                  [] Len(p.calls) = 1 -> "Service"
                  [] OTHER -> "HPA"
        rname == CASE Len(p.calls) = 0 -> DeploymentName(name)
                   [] Len(p.calls) = 1 -> ServiceName(name)
                   [] OTHER -> HpaName(name)
        r == ApiDelete(cl, kind, rname, FALSE)
        calls == p.calls \o <<Call("delete", kind, Namespace, rname, r.code)>>
    IN  IF ~DeleteTolerated(r.code) THEN Ends(p, DeleteRaised(r.cl, calls, r.code))
        ELSE IF Len(calls) = 3 THEN Ends(p, Outcome(r.cl, calls, None, None, None))
        ELSE Goes(r.cl, p, calls)

\* the one call of the timer: what it returns is settled by the read and by
\* the status the framework gave the handler when it started
monitor_step(cl, p) ==
    Ends(p, monitor_deployments(cl, p.spec, p.name, Namespace, Val(p.status), 0))

\* the next call of a pass in flight
Advance(cl, p) ==
    CASE p.kind = "create" -> create_step(cl, p)
      [] p.kind = "update" -> update_step(cl, p)
      [] p.kind = "delete" -> delete_step(cl, p)
      [] OTHER -> monitor_step(cl, p)

\* another pass for the instance of worker w is in flight
Busy(w, n) == \E v \in Workers \ {w} : IsSome(run[v]) /\ Val(run[v]).name = n

\* a worker takes up a trigger: under serial only when no pass for the
\* instance is in flight; the passes it joins are alone no longer
Begin(w, p) ==
    /\ IsNone(run[w])
    /\ serial => ~Busy(w, p.name)
    /\ run' = [v \in Workers |->
                 IF v = w THEN Some(p)
                 ELSE IF IsSome(run[v]) /\ Val(run[v]).name = p.name
                 THEN Some([Val(run[v]) EXCEPT !.alone = FALSE])
                 ELSE run[v]]
    /\ UNCHANGED <<cluster, status, last, prev, serial, services>>

BeginCreate(w, n, spec) ==
    /\ IsNone(cr[n])
    /\ Begin(w, Started("create", n, spec, None, None, ~Busy(w, n)))
    /\ cr' = [cr EXCEPT ![n] = Some([spec |-> spec, deleting |-> FALSE])]

BeginUpdate(w, n, spec) ==
    /\ Live(n)
    /\ Val(cr[n]).spec # spec
    /\ Begin(w, Started("update", n, spec, Some(Val(cr[n]).spec), None, ~Busy(w, n)))
    /\ cr' = [cr EXCEPT ![n] = Some([spec |-> spec, deleting |-> FALSE])]

BeginDelete(w, n) ==
    /\ Live(n)
    /\ Begin(w, Started("delete", n, Val(cr[n]).spec, None, None, ~Busy(w, n)))
    /\ cr' = [cr EXCEPT ![n] = Some([Val(@) EXCEPT !.deleting = TRUE])]

BeginTimer(w, n) ==
    /\ Live(n)
    /\ Begin(w, Started("timer", n, Val(cr[n]).spec, None, Some(status[n]),
                        ~Busy(w, n)))
    /\ cr' = cr

\* a drift check of the instance that has made its read
HasRead(v, n) ==
    /\ IsSome(run[v])
    /\ Val(run[v]).kind = "timer" /\ Val(run[v]).name = n /\ Val(run[v]).done

\* one cluster call of the pass of worker w
StepCall(w) ==
    /\ IsSome(run[w])
    /\ ~Val(run[w]).done
    /\ \E res \in {Advance(cluster, Val(run[w]))} :
          /\ cluster' = res.cl
          /\ run' = [v \in Workers |->
                       IF v = w THEN Some(res.p)
                       ELSE IF /\ HasRead(v, res.p.name)
                               /\ res.p.kind = "update"
                               /\ Len(res.p.calls) = 1
                               /\ res.p.calls[1].code = 200
                               /\ Val(run[v]).stale = 0
                       THEN Some([Val(run[v]) EXCEPT !.stale = 1])
                       ELSE run[v]]
    /\ UNCHANGED <<cr, status, last, prev, serial, services>>

\* the record of a pass that has ended, and what is kept of the one before
Ended(p) ==
    [ kind |-> p.kind, name |-> p.name, spec |-> p.spec,
      calls |-> p.calls, ret |-> p.ret, raised |-> p.raised, obs |-> p.obs,
      alone |-> p.alone, raced |-> p.stale = 2 ]

StepSummary(p) == [kind |-> p.kind, raced |-> p.kind # "none" /\ p.raced]

\* the handler of worker w has ended: the framework stores what it returned
\* in the instance's status, and lets the instance go after a delete handler
\* that did not raise
Finish(w) ==
    /\ IsSome(run[w])
    /\ Val(run[w]).done
    /\ LET p == Val(run[w])
           n == p.name
       IN  /\ IF p.kind = "delete"
              THEN IF IsNone(p.raised)
                   THEN /\ cr' = [cr EXCEPT ![n] = None]
                        /\ status' = [status EXCEPT ![n] = EmptyStatus]
                   ELSE UNCHANGED <<cr, status>>
              ELSE /\ cr' = cr
                   /\ status' = [status EXCEPT ![n] = StoreStatus(@, p.ret)]
           /\ last' = Ended(p)
           /\ prev' = StepSummary(last)
           /\ run' = [v \in Workers |->
                        IF v = w THEN None
                        ELSE IF HasRead(v, n) /\ p.kind = "update"
                                /\ Val(run[v]).stale = 1
                        THEN Some([Val(run[v]) EXCEPT !.stale = 2])
                        ELSE run[v]]
    /\ UNCHANGED <<cluster, serial, services>>

\* the specs of the passes that race: one replica with autoscaling off, one
\* and two replicas with autoscaling on
RaceSpec(replicas, enabled) ==
    [ modelName |-> "iris-classifier", modelVersion |-> 1,
      replicas |-> Some(replicas), resources |-> None, environment |-> None,
      autoscaling |-> Some([DefaultAutoscaling EXCEPT !.enabled = Some(enabled)]) ]

RaceSpecSet == {RaceSpec(1, FALSE), RaceSpec(1, TRUE), RaceSpec(2, TRUE)}

\* passes for one instance on two workers, one call at a time, the framework
\* serializing the passes of the instance or not
InitRace ==
    /\ cr = [n \in Names |-> None]
    /\ cluster = EmptyCluster
    /\ status = [n \in Names |-> EmptyStatus]
    /\ last = NoPass
    /\ prev = Summary(NoPass)
    /\ run = NoRun
    /\ serial \in BOOLEAN
    /\ ServicesIdle

\* worker 1 takes the create and the update triggers, worker 2 the update
\* triggers and the timer's ticks
NextRace ==
    \/ \E n \in Names, spec \in RaceSpecSet : BeginCreate(1, n, spec)
    \/ \E w \in Workers, n \in Names, spec \in RaceSpecSet : BeginUpdate(w, n, spec)
    \/ \E n \in Names : BeginTimer(2, n)
    \/ \E w \in Workers : StepCall(w)
    \/ \E w \in Workers : Finish(w)

SpecRace == InitRace /\ [][NextRace]_vars

\* the instance each worker serves when there are two instances
InstanceOf(w) == IF w = 1 THEN "iris" ELSE "wine"

\* passes for two instances with different names, one call at a time, the
\* passes of each instance serialized
InitTwo ==
    /\ cr = [n \in NameSet |-> None]
    /\ cluster = EmptyCluster
    /\ status = [n \in NameSet |-> EmptyStatus]
    /\ last = NoPass
    /\ prev = Summary(NoPass)
    /\ run = NoRun
    /\ serial = TRUE
    /\ ServicesIdle

NextTwo ==
    \/ \E w \in Workers, spec \in {ScenarioCreate, ScenarioUpdate} :
          BeginCreate(w, InstanceOf(w), spec)
    \/ \E w \in Workers, spec \in {ScenarioCreate, ScenarioUpdate} :
          BeginUpdate(w, InstanceOf(w), spec)
    \/ \E w \in Workers : BeginDelete(w, InstanceOf(w))
    \/ \E w \in Workers : BeginTimer(w, InstanceOf(w))
    \/ \E w \in Workers : StepCall(w)
    \/ \E w \in Workers : Finish(w)

SpecTwo == InitTwo /\ [][NextTwo]_vars

\* ------------------------------------------------------------------ registry

\* the most upload requests made to the registry
MaxUploads == 3

ModelNames == {"iris-classifier", "wine-classifier"}

\* the name of the uploaded file
Filenames == {"model.pkl"}

\* what a registry request can fail at: nothing, the object store, the
\* database commit
RegistryFaults == {"none", "storage", "commit"}

\* the rows of model_versions that belong to the model
VersionsOf(reg, model_name) == {v \in reg.versions : v.model = model_name}

\* order_by(ModelVersion.version.desc()).first(): the highest version number
\* of the model, None when it has no row
LastVersion(reg, model_name) ==
    IF VersionsOf(reg, model_name) = {} THEN None
    ELSE Some(CHOOSE n \in {v.version : v \in VersionsOf(reg, model_name)} :
                 \A v \in VersionsOf(reg, model_name) : v.version <= n)

\* NextVersion that gives the last version again
NextVersion_same(last_version) ==
    IF IsSome(last_version) THEN Val(last_version) ELSE 1

\* next_version of upload_model
NextVersion(last_version) ==
    IF IsSome(last_version) THEN Val(last_version) + 1 ELSE 1

\* file_path of upload_model
FilePath(model_name, next_version, filename) ==
    model_name \o "/v" \o ToStr(next_version) \o "/" \o filename

\* MinIOStorage.upload_file: put_object stores the content under the path,
\* in the place of what was there
PutObject(files, file_path, content) ==
    {f \in files : f.path # file_path} \cup {[path |-> file_path, content |-> content]}

\* MinIOStorage.delete_file: remove_object, of an object that is there or not
RemoveObject(files, file_path) == {f \in files : f.path # file_path}

\* MinIOStorage.download_file: the content under the path, None when
\* get_object raises
GetObject(files, file_path) ==
    IF \E f \in files : f.path = file_path
    THEN Some((CHOOSE f \in files : f.path = file_path).content)
    ELSE None

\* the answers download_model can give: 404 without the model or the row,
\* 500 when the object store raises, else 200 with the content of the row
\* that first() gives
download_model(reg, model_name, version) ==
    LET rows == {v \in VersionsOf(reg, model_name) : v.version = version}
    IN  IF model_name \notin reg.models \/ rows = {}
        THEN {[code |-> 404, content |-> None]}
        ELSE { IF IsSome(GetObject(reg.files, v.file_path))
               THEN [code |-> 200, content |-> GetObject(reg.files, v.file_path)]
               ELSE [code |-> 500, content |-> None] : v \in rows }

\* no handler of the registry is in flight
RegistryQuiet == \A w \in Workers : IsNone(registry.reqs[w])

\* upload_model up to the await of file.read(): the model's row is found or
\* made and the next version number is computed from the last row.  The
\* content of the file is the number of the upload.
UploadRead(w, model_name, filename) ==
    /\ registry.uploads < MaxUploads
    /\ IsNone(registry.reqs[w])
    /\ serial => RegistryQuiet
    /\ registry' =
         [registry EXCEPT
            !.models = @ \cup {model_name},
            !.uploads = @ + 1,
            !.reqs[w] = Some([ model_name |-> model_name,
                               filename |-> filename,
                               content |-> registry.uploads + 1,
                               next_version |->
                                  NextVersion(LastVersion(registry, model_name)) ])]
    /\ UNCHANGED <<operator, serial, server>>

\* upload_model from the await on: the file is put into the bucket, the row
\* is added and committed; an error at either step is answered 500 after a
\* rollback of the database session
UploadStore(w, fault) ==
    /\ IsSome(registry.reqs[w])
    /\ LET req == Val(registry.reqs[w])
           file_path == FilePath(req.model_name, req.next_version, req.filename)
           stored == PutObject(registry.files, file_path, req.content)
           model_version ==
               [ id |-> registry.next_id, model |-> req.model_name,
                 version |-> req.next_version, file_path |-> file_path,
                 filename |-> req.filename, content |-> req.content ]
           failed(files) ==
               [registry EXCEPT
                  !.files = files,
                  !.reqs[w] = None,
                  !.answer = [op |-> "upload", code |-> 500]]
       IN  registry' =
             CASE fault = "storage" -> failed(registry.files)
               [] fault = "commit" -> failed(stored)
               [] OTHER ->
                    [registry EXCEPT
                       !.files = stored,
                       !.versions = @ \cup {model_version},
                       !.next_id = @ + 1,
                       !.reqs[w] = None,
                       !.order = Append(@, model_version),
                       !.answer = [ op |-> "upload", code |-> 200,
                                    version |-> model_version.version,
                                    highest |-> LastVersion(registry, req.model_name) ]]
    /\ UNCHANGED <<operator, serial, server>>

\* delete_model_version: 404 without the model or the row; else the object
\* of the row that first() gives is removed, the row is deleted and
\* committed; an error at either step is answered 500 after a rollback
DeleteVersion(model_name, version, fault) ==
    /\ serial => RegistryQuiet
    /\ LET rows == {v \in VersionsOf(registry, model_name) : v.version = version}
       IN  IF model_name \notin registry.models \/ rows = {}
           THEN registry' = [registry EXCEPT !.answer = [op |-> "delete", code |-> 404]]
           ELSE \E model_version \in rows :
                  LET removed == RemoveObject(registry.files, model_version.file_path)
                      failed(files) ==
                          [registry EXCEPT
                             !.files = files,
                             !.deleted = TRUE,
                             !.answer = [op |-> "delete", code |-> 500]]
                  IN  registry' =
                        CASE fault = "storage" -> failed(registry.files)
                          [] fault = "commit" -> failed(removed)
                          [] OTHER ->
                               [registry EXCEPT
                                  !.files = removed,
                                  !.versions = @ \ {model_version},
                                  !.deleted = TRUE,
                                  !.answer = [op |-> "delete", code |-> 200]]
    /\ UNCHANGED <<operator, serial, server>>

\* the operator while the specification is about a service beside it
OperatorIdle ==
    /\ cr = [n \in Names |-> None]
    /\ cluster = EmptyCluster
    /\ status = [n \in Names |-> EmptyStatus]
    /\ last = NoPass
    /\ prev = Summary(NoPass)
    /\ run = NoRun

\* the registry given up to MaxUploads uploads and any deletions, its
\* requests handled one at a time (serial) or its uploads interleaved at
\* the await
InitRegistry ==
    /\ OperatorIdle
    /\ serial \in BOOLEAN
    /\ ServicesIdle

NextRegistry ==
    \/ \E w \in Workers, model_name \in ModelNames, filename \in Filenames :
          UploadRead(w, model_name, filename)
    \/ \E w \in Workers, fault \in RegistryFaults : UploadStore(w, fault)
    \/ \E model_name \in ModelNames, version \in 1..MaxUploads,
          fault \in RegistryFaults : DeleteVersion(model_name, version, fault)

SpecRegistry == InitRegistry /\ [][NextRegistry]_vars

\* ------------------------------------------------------------------ inference server

\* the most /predict requests made to the server
MaxRequests == 4

\* the features of a request, by the lengths of its rows: no row, rows of
\* one length, rows of two lengths
FeatureSet == {<<>>, <<0>>, <<2>>, <<2, 2>>, <<2, 1>>}

\* X.ndim of np.array(features): 1 for the empty list, 2 for rows of one
\* length; for rows of different lengths np.array raises ValueError (written
\* 0 here) or gives a 1-D array of lists, by the version of the library
Ndim(features) ==
    IF Len(features) = 0 THEN {1}
    ELSE IF \A i \in 1..Len(features) : features[i] = features[1] THEN {2}
    ELSE {1, 0}

\* the lifespan's download_model, and /reload-model: joblib.load gives the
\* object that was pickled, which may be None
Startup(loaded) ==
    /\ server' = [server EXCEPT !.started = TRUE,
                                !.model = IF loaded THEN Some("model") ELSE None]
    /\ UNCHANGED <<operator, serial, registry>>

\* the counters and the answer after the except branch of predict
PredictionFailed(srv, features) ==
    [srv EXCEPT !.error_count = @ + 1,
                !.failed = srv.failed + 1,
                !.answer = [code |-> 500, features |-> features,
                            loaded |-> IsSome(srv.model)]]

\* POST /predict: raises says that model.predict raises on these features
predict(features, ndim, raises) ==
    /\ server.started
    /\ server.request_count < MaxRequests
    /\ ndim \in Ndim(features)
    /\ LET counted == [server EXCEPT !.request_count = @ + 1]
       IN  server' =
             IF IsNone(counted.model)
             THEN [counted EXCEPT !.error_count = @ + 1,
                                  !.failed = @ + 1,
                                  !.answer = [code |-> 503, features |-> features,
                                              loaded |-> FALSE]]
             \* np.array raised
             ELSE IF ndim = 0 THEN PredictionFailed(counted, features)
             \* the HTTPException of status 400 is raised inside the try
             \* block and caught by its except Exception
             ELSE IF ndim # 2
             THEN PredictionFailed([counted EXCEPT !.error_count = @ + 1], features)
             ELSE IF raises THEN PredictionFailed(counted, features)
             ELSE [counted EXCEPT !.prediction_count = @ + Len(features),
                                  !.answer = [code |-> 200, features |-> features,
                                              loaded |-> TRUE]]
    /\ UNCHANGED <<operator, serial, registry>>

\* GET /metrics
get_metrics(srv) ==
    [ requests_total |-> srv.request_count,
      predictions_total |-> srv.prediction_count,
      errors_total |-> srv.error_count ]

InitServer ==
    /\ OperatorIdle
    /\ serial = TRUE
    /\ ServicesIdle

NextServer ==
    \/ \E loaded \in BOOLEAN : Startup(loaded)
    \/ \E features \in FeatureSet, ndim \in 0..2, raises \in BOOLEAN :
          predict(features, ndim, raises)

SpecServer == InitServer /\ [][NextServer]_vars

\* ------------------------------------------------------------------ claims

\* the instance and the spec of the last pass (the spec is the one the
\* instance holds once the pass has run)
LastSpec == Val(cr[last.name]).spec

Enabled(spec) ==
    IsSome(spec.autoscaling) /\ Get(Val(spec.autoscaling).enabled, FALSE)

\* the last pass returned phase Running with Ready=True
EndedRunning ==
    /\ IsSome(last.ret)
    /\ Val(last.ret).phase = Some("Running")
    /\ Len(Val(last.ret).conditions) = 1
    /\ Val(last.ret).conditions[1].type = "Ready"
    /\ Val(last.ret).conditions[1].status = "True"

HasCall(verb, kinds, codes) ==
    \E i \in 1..Len(last.calls) :
        /\ last.calls[i].verb = verb
        /\ last.calls[i].kind \in kinds
        /\ last.calls[i].code \in codes

\* the cluster holds, for the last pass's instance, exactly the objects a
\* single create pass with its spec leaves
AsCreated ==
    LET n == last.name
    IN  /\ cluster["Deployment"][DeploymentName(n)] =
              Some(Stored(create_inference_deployment(LastSpec, n, Namespace)))
        /\ cluster["Service"][ServiceName(n)] =
              Some(Stored(create_inference_service(LastSpec, n, Namespace)))
        /\ cluster["HPA"][HpaName(n)] =
              IF IsSome(create_hpa(LastSpec, n, Namespace))
              THEN Some(Stored(Val(create_hpa(LastSpec, n, Namespace))))
              ELSE None

\* C1: a create pass that directly follows a successful create pass of the
\* same instance (same spec, workload as the first pass left it, no server
\* error) ends in phase Running with Ready=True and leaves the three child
\* objects a single create pass leaves.
C1_CreateTwiceRunning ==
    ( /\ prev.kind = "create" /\ ~prev.failed
      /\ last.kind = "create" /\ last.name = prev.name
      /\ ~Faulted(last.calls)
      /\ cluster["Deployment"][DeploymentName(last.name)] =
            Some(Stored(create_inference_deployment(LastSpec, last.name, Namespace))) )
    => (EndedRunning /\ AsCreated)

\* C2: a create or update pass in which a create call was answered 409
\* (already exists), and no call by a server error, does not end in Failed,
\* and a create pass goes on to create every child its spec asks for.
C2_ConflictIsSuccess ==
    ( /\ last.kind \in {"create", "update"}
      /\ HasCall("create", Kinds, {409})
      /\ ~Faulted(last.calls) )
    => ( /\ ~FailedPass(last)
         /\ last.kind = "create" =>
               Len(last.calls) = IF Enabled(LastSpec) THEN 3 ELSE 2 )

\* C3: after a create or update pass that ended in success the autoscaler
\* exists iff the pass's spec has autoscaling.enabled = true; an update from
\* enabled to disabled that found the autoscaler deleted it, and an update
\* from disabled to enabled that found none created it.
C3_AutoscalerIffEnabled ==
    (last.kind \in {"create", "update"} /\ EndedRunning)
    => ( /\ Exists(cluster, "HPA", HpaName(last.name)) <=> Enabled(LastSpec)
         /\ ( /\ last.kind = "update"
              /\ Enabled(Val(last.old)) /\ ~Enabled(LastSpec)
              /\ HasCall("read", {"HPA"}, {200}) )
            => HasCall("delete", {"HPA"}, {200})
         /\ ( /\ last.kind = "update"
              /\ ~Enabled(Val(last.old)) /\ Enabled(LastSpec)
              /\ HasCall("read", {"HPA"}, {404}) )
            => HasCall("create", {"HPA"}, {201}) )

\* an update from enabled to disabled deleted the autoscaler it found
C3_Witness ==
    /\ last.kind = "update" /\ EndedRunning
    /\ Enabled(Val(last.old)) /\ ~Enabled(LastSpec)
    /\ HasCall("delete", {"HPA"}, {200})
    /\ ~Exists(cluster, "HPA", HpaName(last.name))

\* C4: after a delete pass whose calls were all answered by done or
\* not-found, three deletions were attempted and no child of the instance
\* exists, whichever of them existed before.
C4_DeleteLeavesNothing ==
    ( /\ last.kind = "delete"
      /\ \A i \in 1..Len(last.calls) : last.calls[i].code \in {200, 404} )
    => ( /\ Len(last.calls) = 3
         /\ ChildKinds(cluster, last.name) = {}
         /\ IsNone(last.raised) )

\* a delete pass that met a missing workload and went on to delete the
\* endpoint that existed
C4_Witness ==
    /\ last.kind = "delete" /\ IsNone(last.raised)
    /\ Len(last.calls) = 3
    /\ last.calls[1].code = 404
    /\ last.calls[2].code = 200
    /\ ChildKinds(cluster, last.name) = {}

\* C5: a delete pass attempts all three deletions whatever the answers, and
\* the error it raises is the first one other than not-found.
C5_DeleteAttemptsAll ==
    last.kind = "delete"
    => ( /\ Len(last.calls) = 3
         /\ \A i \in 1..Len(last.calls) :
               ( /\ ~DeleteTolerated(last.calls[i].code)
                 /\ \A j \in 1..(i - 1) : DeleteTolerated(last.calls[j].code) )
               => last.raised = Some(ErrText(last.calls[i].code)) )

\* C6: an update pass whose patch of the workload or of the endpoint was
\* answered not-found, and no call by a server error, does not end in
\* Failed and leaves the workload and the endpoint in the cluster.
C6_UpdateCreatesMissing ==
    ( /\ last.kind = "update"
      /\ HasCall("patch", {"Deployment", "Service"}, {404})
      /\ ~Faulted(last.calls) )
    => ( /\ ~FailedPass(last)
         /\ {"Deployment", "Service"} \subseteq ChildKinds(cluster, last.name) )

\* the kinds of child the spec asks for
DesiredKinds(spec) ==
    {"Deployment", "Service"} \cup (IF Enabled(spec) THEN {"HPA"} ELSE {})

\* C7: the trigger that follows a create pass that failed part-way (a retried
\* create pass or a timer tick, answered without server error) leaves every
\* desired child in the cluster and a stored phase other than Failed.
C7_NextTriggerCompletes ==
    ( /\ prev.kind = "create" /\ prev.partial
      /\ last.kind \in {"create", "timer"} /\ last.name = prev.name
      /\ ~Faulted(last.calls) )
    => ( /\ DesiredKinds(LastSpec) \subseteq ChildKinds(cluster, last.name)
         /\ status[last.name].phase # Some("Failed") )

\* two timer passes in a row that read the same counts
SameCountsTwice ==
    /\ prev.kind = "timer" /\ IsSome(prev.obs)
    /\ last.kind = "timer" /\ last.name = prev.name /\ IsSome(last.obs)
    /\ Val(prev.obs).desired = Val(last.obs).desired
    /\ Val(prev.obs).ready = Get(Val(last.obs).ready, 0)

\* C8: the second of two timer passes in a row that read the same desired
\* and ready counts returns no status.
C8_SecondCheckSuppressed == SameCountsTwice => IsNone(last.ret)

\* two such passes, the workload not fully ready
C8_Witness ==
    /\ SameCountsTwice /\ IsNone(last.ret)
    /\ Val(last.obs).newPhase = "Updating"

\* C9: a timer pass whose read succeeded returns a status iff the phase it
\* computed differs from the stored phase or the ready count it read differs
\* from the stored readyReplicas; when it returns none the stored status is
\* the one the pass was given.
C9_WriteIffChanged ==
    (last.kind = "timer" /\ IsSome(last.obs))
    => LET st == Val(last.status)
           o == Val(last.obs)
           differs == \/ st.phase # Some(o.newPhase)
                      \/ st.readyReplicas # Some(Get(o.ready, 0))
       IN  /\ IsSome(last.ret) <=> differs
           /\ IsNone(last.ret) => status[last.name] = st
           /\ IsSome(last.ret) => status[last.name] = Val(last.ret)

\* a write made for the ready count alone: the phase stays Running
C9_Witness ==
    /\ last.kind = "timer" /\ IsSome(last.obs) /\ IsSome(last.ret)
    /\ Val(last.status).phase = Some(Val(last.obs).newPhase)
    /\ Val(last.status).readyReplicas # None
    /\ Val(last.status).readyReplicas # Some(Get(Val(last.obs).ready, 0))

\* C10: the phase a timer pass computes is Running exactly when the ready
\* count it read (0 when absent) equals the desired count, and Updating
\* otherwise; the status it returns carries that phase.
C10_PhaseFromCounts ==
    (last.kind = "timer" /\ IsSome(last.obs))
    => LET o == Val(last.obs)
           ready == IF IsSome(o.ready) THEN Val(o.ready) ELSE 0
       IN  /\ ready = o.desired => o.newPhase = "Running"
           /\ ready # o.desired => o.newPhase = "Updating"
           /\ IsSome(last.ret) => Val(last.ret).phase = Some(o.newPhase)

\* no replica desired, no ready count reported: Running
C10_Witness ==
    /\ last.kind = "timer" /\ IsSome(last.obs) /\ IsSome(last.ret)
    /\ Val(last.obs).desired = 0
    /\ IsNone(Val(last.obs).ready)
    /\ Val(last.ret).phase = Some("Running")

\* text t occurs in text s
Contains(s, t) ==
    \E i \in 1..(Len(s) - Len(t) + 1) : SubSeq(s, i, i + Len(t) - 1) = t

\* st is a status of phase Failed whose one condition is Ready=False with
\* the given reason and a message that holds text
IsFailure(st, reason, text) ==
    /\ st.phase = Some("Failed")
    /\ Len(st.conditions) = 1
    /\ st.conditions[1].type = "Ready"
    /\ st.conditions[1].status = "False"
    /\ st.conditions[1].reason = reason
    /\ Contains(st.conditions[1].message, text)

\* C11: a timer pass leaves the cluster as it found it and makes no call but
\* a read; when its read is answered by an error (not-found included) it
\* returns phase Failed with Ready=False, reason HealthCheckFailed, which is
\* the status then stored.
C11_DriftCheckReadOnly ==
    [][ \A n \in Names, fault \in 0..MaxCalls :
          ( /\ last'.kind = "timer" /\ prev' = Summary(last)
            /\ TimerPass(n, fault) ) =>
            /\ cluster' = cluster
            /\ \A i \in 1..Len(last'.calls) : last'.calls[i].verb = "read"
            /\ last'.calls[1].code # 200 =>
                  /\ IsSome(last'.ret)
                  /\ IsFailure(Val(last'.ret), "HealthCheckFailed",
                               ErrText(last'.calls[1].code))
                  /\ status'[n] = Val(last'.ret) ]_vars

\* a timer pass whose read failed while the three children exist: Failed is
\* stored and the children are still there
C11_Witness ==
    /\ last.kind = "timer"
    /\ last.calls[1].code # 200
    /\ IsFailure(status[last.name], "HealthCheckFailed", "Reason")
    /\ ChildKinds(cluster, last.name) = Kinds

\* the kinds a create pass with the spec calls for, in the order it calls
CreateOrder(spec) ==
    <<"Deployment", "Service">> \o (IF Enabled(spec) THEN <<"HPA">> ELSE <<>>)

\* C12: a create pass calls create for the workload, the endpoint and (when
\* enabled) the autoscaler in that order; every call before the last was
\* answered 201; a call answered otherwise is the last one, and the pass then
\* returns phase Failed with Ready=False, reason CreationFailed and a message
\* that holds the text of the error.
C12_CreateInOrderHalts ==
    last.kind = "create" =>
        LET want == CreateOrder(LastSpec)
            n == Len(last.calls)
        IN  /\ 1 <= n /\ n <= Len(want)
            /\ \A i \in 1..n :
                  /\ last.calls[i].verb = "create"
                  /\ last.calls[i].kind = want[i]
                  /\ i < n => last.calls[i].code = 201
            /\ last.calls[n].code = 201 => n = Len(want)
            /\ last.calls[n].code # 201 =>
                  /\ IsSome(last.ret)
                  /\ IsFailure(Val(last.ret), "CreationFailed",
                               ErrText(last.calls[n].code))

\* a create pass with autoscaling enabled whose second call failed: the
\* autoscaler was not attempted
C12_Witness ==
    /\ last.kind = "create" /\ Enabled(LastSpec)
    /\ Len(last.calls) = 2
    /\ last.calls[1].code = 201 /\ last.calls[2].code = 500
    /\ IsFailure(Val(last.ret), "CreationFailed", "(500)")

\* the manifest a pass of the instance with the spec builds for a kind
Manifest(kind, spec, name) ==
    CASE kind = "Deployment" -> create_inference_deployment(spec, name, Namespace)
      [] kind = "Service" -> create_inference_service(spec, name, Namespace)
      [] OTHER -> Val(create_hpa(spec, name, Namespace))

\* C13: a create pass that returned Failed removed nothing and changed no
\* object that existed, and every object it created is in the cluster as
\* created when the pass ends.
C13_NoRollback ==
    [][ \A n \in Names, spec \in SpecSet, fault \in 0..MaxCalls :
          ( /\ last'.kind = "create" /\ FailedPass(last')
            /\ prev' = Summary(last)
            /\ cr'[n] = Some([spec |-> spec, deleting |-> FALSE])
            /\ CreatePass(n, spec, fault) ) =>
            /\ \A k \in Kinds, r \in ResNames :
                  IsSome(cluster[k][r]) => cluster'[k][r] = cluster[k][r]
            /\ \A i \in 1..Len(last'.calls) :
                  last'.calls[i].code = 201 =>
                     cluster'[last'.calls[i].kind][last'.calls[i].name] =
                        Some(Stored(Manifest(last'.calls[i].kind, spec, n))) ]_vars

\* a failed create pass that had created the workload and the endpoint
C13_Witness ==
    /\ last.kind = "create" /\ FailedPass(last)
    /\ Len(last.calls) = 3
    /\ last.calls[1].code = 201 /\ last.calls[2].code = 201
    /\ {"Deployment", "Service"} \subseteq ChildKinds(cluster, last.name)

\* the fourth call of the last pass is the given verb on the autoscaler,
\* and the last one
FourthCall(verb) ==
    /\ Len(last.calls) = 4
    /\ last.calls[4].verb = verb
    /\ last.calls[4].kind = "HPA"
    /\ last.calls[4].name = last.calls[3].name

\* C14: in an update pass whose read of the autoscaler was answered found or
\* not-found, the read is followed by a patch (found, desired), a delete
\* (found, not desired), a create (not found, desired) or no call (not found,
\* not desired) and by nothing else; when no call was answered by a server
\* error the pass returns Running with Ready=True, and the autoscaler is then
\* in the cluster, with the manifest of the new spec, iff it is desired.
C14_AutoscalerFourWays ==
    ( /\ last.kind = "update" /\ Len(last.calls) >= 3
      /\ last.calls[3].code \in {200, 404} )
    => LET found == last.calls[3].code = 200
           desired == Enabled(LastSpec)
           hpa == cluster["HPA"][HpaName(last.name)]
       IN  /\ last.calls[3].verb = "read" /\ last.calls[3].kind = "HPA"
           /\ (found /\ desired) => FourthCall("patch")
           /\ (found /\ ~desired) => FourthCall("delete")
           /\ (~found /\ desired) => FourthCall("create")
           /\ (~found /\ ~desired) => Len(last.calls) = 3
           /\ ~Faulted(last.calls) =>
                 /\ EndedRunning
                 /\ desired => hpa = Some(Stored(Manifest("HPA", LastSpec, last.name)))
                 /\ ~desired => IsNone(hpa)

\* an update pass that found no autoscaler and desired none: three calls
C14_Witness ==
    /\ last.kind = "update" /\ Len(last.calls) = 3
    /\ last.calls[3].code = 404
    /\ ~Enabled(LastSpec)
    /\ EndedRunning

\* the other three outcomes, each ending in Running
C14_Patched ==
    last.kind = "update" /\ FourthCall("patch") /\ EndedRunning
C14_Deleted ==
    last.kind = "update" /\ FourthCall("delete") /\ EndedRunning
C14_Created ==
    last.kind = "update" /\ FourthCall("create") /\ EndedRunning

\* C15: in an update pass a call answered by an error other than not-found
\* is the last call of the pass, and the pass returns phase Failed with
\* Ready=False, reason UpdateFailed and a message that holds the text of the
\* error, which is the status then stored.
C15_UpdateErrorAborts ==
    last.kind = "update" =>
        \A i \in 1..Len(last.calls) :
            last.calls[i].code \notin {200, 201, 404} =>
                /\ i = Len(last.calls)
                /\ IsSome(last.ret)
                /\ IsFailure(Val(last.ret), "UpdateFailed",
                             ErrText(last.calls[i].code))
                /\ status[last.name] = Val(last.ret)

\* an update pass whose read of the autoscaler was answered by a server
\* error, the autoscaler being desired: no fourth call
C15_Witness ==
    /\ last.kind = "update" /\ Enabled(LastSpec)
    /\ Len(last.calls) = 3
    /\ last.calls[3].verb = "read" /\ last.calls[3].code = 500
    /\ IsFailure(status[last.name], "UpdateFailed", "(500)")

\* C16: a status a pass returned, and every stored status that has a phase,
\* holds a Ready condition whose status is "True" when the phase is Running
\* and "False" when it is Updating or Failed, and has no other phase.
C16_ReadyIffRunning ==
    \A st \in {status[n] : n \in Names} \cup
               (IF IsSome(last.ret) THEN {Val(last.ret)} ELSE {}) :
        IsSome(st.phase) =>
            /\ Val(st.phase) \in {"Running", "Updating", "Failed"}
            /\ \E i \in 1..Len(st.conditions) : st.conditions[i].type = "Ready"
            /\ \A i \in 1..Len(st.conditions) :
                  st.conditions[i].type = "Ready" =>
                     /\ st.conditions[i].status \in {"True", "False"}
                     /\ st.conditions[i].status = "True"
                           <=> st.phase = Some("Running")

\* a timer pass wrote Updating with Ready=False
C16_Witness ==
    /\ last.kind = "timer" /\ IsSome(last.ret)
    /\ Val(last.ret).phase = Some("Updating")
    /\ Val(last.ret).conditions[1].status = "False"
    /\ status[last.name] = Val(last.ret)

\* C17: the status stored for an instance that exists, and every status a
\* pass returned, holds a conditions list of exactly one element, of type
\* Ready.
C17_OneReadyCondition ==
    /\ \A n \in Names :
          IsSome(cr[n]) =>
             /\ Len(status[n].conditions) = 1
             /\ status[n].conditions[1].type = "Ready"
    /\ IsSome(last.ret) =>
          /\ Len(Val(last.ret).conditions) = 1
          /\ Val(last.ret).conditions[1].type = "Ready"

\* a timer pass replaced the one condition of a stored status by its own
C17_Witness ==
    /\ last.kind = "timer" /\ IsSome(last.ret)
    /\ Len(Val(last.status).conditions) = 1
    /\ Val(last.status).conditions[1].reason = "HealthCheck"
    /\ status[last.name].conditions # Val(last.status).conditions
    /\ Len(status[last.name].conditions) = 1

\* C18: a pass of any trigger in which a call was answered by a server error
\* returns a status of phase Failed whose condition has a non-empty message.
C18_EveryFailureWritten ==
    (last.kind # "none" /\ Faulted(last.calls))
    => /\ IsSome(last.ret)
       /\ Val(last.ret).phase = Some("Failed")
       /\ Len(Val(last.ret).conditions) = 1
       /\ Val(last.ret).conditions[1].message # ""

\* the statement of C18 for the create, update and timer triggers alone
C18_ExceptDelete ==
    last.kind = "delete" \/ C18_EveryFailureWritten

\* every call of the last update pass was answered without error (a read
\* may be answered not-found)
UpdateSucceeded ==
    /\ last.kind = "update"
    /\ \A i \in 1..Len(last.calls) :
          \/ last.calls[i].code \in {200, 201}
          \/ last.calls[i].verb = "read" /\ last.calls[i].code = 404

\* C19: an update pass that follows a failed create, update or timer pass of
\* the instance (the stored phase is Failed) and whose calls all succeeded
\* stores Running with Ready=True; a timer pass given a stored phase Failed
\* whose read succeeded returns Running or Updating, which is then stored.
C19_FailedNotTerminal ==
    /\ ( /\ UpdateSucceeded
          /\ prev.failed /\ prev.kind \in {"create", "update", "timer"}
          /\ prev.name = last.name )
       => ( /\ EndedRunning
            /\ status[last.name] = Val(last.ret) )
    /\ ( /\ last.kind = "timer"
          /\ Val(last.status).phase = Some("Failed")
          /\ last.calls[1].code = 200 )
       => ( /\ IsSome(last.ret)
            /\ Val(last.ret).phase \in {Some("Running"), Some("Updating")}
            /\ status[last.name] = Val(last.ret) )

\* a timer pass given a stored phase Failed wrote Updating
C19_Witness ==
    /\ last.kind = "timer"
    /\ Val(last.status).phase = Some("Failed")
    /\ IsSome(last.ret)
    /\ status[last.name].phase = Some("Updating")

\* an update pass after a failed pass stored Running
C19_UpdateRecovers ==
    /\ UpdateSucceeded /\ prev.failed /\ prev.kind = "timer"
    /\ prev.name = last.name
    /\ status[last.name].phase = Some("Running")

\* the name of the child of the kind, written out
ChildName(kind, name) ==
    CASE kind = "Deployment" -> name \o "-inference"
      [] kind = "Service" -> name \o "-service"
      [] OTHER -> name \o "-hpa"

\* C20: whatever the instance's name, every call of a pass names the child
\* "{name}-inference", "{name}-service" or "{name}-hpa" by its kind, in the
\* instance's namespace; every object in the cluster is stored under the name
\* and namespace its manifest bears, which are those of a child of the
\* instance; the autoscaler targets "{name}-inference"; and deploymentName and
\* serviceName of a status are "{name}-inference" and "{name}-service".
C20_DerivedNames ==
    /\ \A i \in 1..Len(last.calls) :
          /\ last.calls[i].name = ChildName(last.calls[i].kind, last.name)
          /\ last.calls[i].namespace = Namespace
    /\ \A k \in Kinds, r \in ResNames :
          IsSome(cluster[k][r]) =>
             /\ Val(cluster[k][r]).body.kind = k
             /\ Val(cluster[k][r]).body.name = r
             /\ Val(cluster[k][r]).body.namespace = Namespace
             /\ \E n \in DOMAIN cr : r = ChildName(k, n)
    /\ \A n \in DOMAIN cr :
          /\ IsSome(cluster["HPA"][n \o "-hpa"]) =>
                Val(cluster["HPA"][n \o "-hpa"]).body.scaleTargetRef =
                   n \o "-inference"
          /\ status[n].deploymentName \in {None, Some(n \o "-inference")}
          /\ status[n].serviceName \in {None, Some(n \o "-service")}
    /\ IsSome(last.ret) =>
          /\ Val(last.ret).deploymentName \in
                {None, Some(last.name \o "-inference")}
          /\ Val(last.ret).serviceName \in {None, Some(last.name \o "-service")}

\* an update pass of the instance wine, started with another spec than it
\* had, patched "wine-service" and stored the two names
C20_Witness ==
    /\ last.kind = "update" /\ last.name = "wine"
    /\ Val(last.old) # LastSpec
    /\ Len(last.calls) = 4
    /\ last.calls[2].name = "wine-service" /\ last.calls[2].code = 200
    /\ last.calls[4].name = "wine-hpa"
    /\ status["wine"].deploymentName = Some("wine-inference")
    /\ status["wine"].serviceName = Some("wine-service")

\* the last pass was a create pass of instance n that ran to its end
CreatedBy(n) ==
    /\ last.kind = "create" /\ last.name = n
    /\ IsSome(cr[n])
    /\ EndedRunning

\* C28: after a create pass that ran to its end the autoscaler is in the
\* cluster exactly when the spec has an autoscaling block whose enabled key
\* is present and true, and no call was made for it otherwise; its manifest
\* is named "{name}-hpa", targets "{name}-inference" and carries the three
\* numbers of the block, 1, 5 and 70 standing in for those that are absent.
C28_AutoscalerManifest ==
    \A n \in DOMAIN cr :
        CreatedBy(n) =>
            LET a == Val(cr[n]).spec.autoscaling
                on == IsSome(a) /\ Val(a).enabled = Some(TRUE)
                hpa == cluster["HPA"][n \o "-hpa"]
                given(o, default) == IF IsSome(o) THEN Val(o) ELSE default
            IN  /\ IsSome(hpa) <=> on
                /\ ~on => Len(last.calls) = 2
                /\ on =>
                      /\ Val(hpa).body.name = n \o "-hpa"
                      /\ Val(hpa).body.scaleTargetRef = n \o "-inference"
                      /\ Val(hpa).body.minReplicas = given(Val(a).minReplicas, 1)
                      /\ Val(hpa).body.maxReplicas = given(Val(a).maxReplicas, 5)
                      /\ Val(hpa).body.targetCPUUtilizationPercentage =
                            given(Val(a).targetCPUUtilizationPercentage, 70)

\* an autoscaler built from a block that gives maxReplicas alone
C28_Witness ==
    \E n \in DOMAIN cr :
        /\ CreatedBy(n)
        /\ IsSome(cluster["HPA"][n \o "-hpa"])
        /\ Val(cluster["HPA"][n \o "-hpa"]).body.minReplicas = 1
        /\ Val(cluster["HPA"][n \o "-hpa"]).body.maxReplicas = 3
        /\ Val(cluster["HPA"][n \o "-hpa"]).body.targetCPUUtilizationPercentage = 70

\* a block without the enabled key, and no block at all: no autoscaler
C28_NoneForAbsent ==
    \E n \in DOMAIN cr :
        /\ CreatedBy(n)
        /\ Val(cr[n]).spec.autoscaling # None
        /\ Val(Val(cr[n]).spec.autoscaling).enabled = None
        /\ IsNone(cluster["HPA"][n \o "-hpa"])

\* C29: the workload a create pass stored carries, for every optional field
\* the spec leaves out, the stated default: replicas 1, environment
\* "development", requests memory 256Mi and cpu 250m, limits memory 512Mi
\* and cpu 500m, each of memory and cpu by itself, and what the spec gives
\* otherwise.
C29_WorkloadDefaults ==
    \A n \in DOMAIN cr :
        (CreatedBy(n) /\ IsSome(cluster["Deployment"][n \o "-inference"])) =>
            LET spec == Val(cr[n]).spec
                body == Val(cluster["Deployment"][n \o "-inference"]).body
                given(o, default) == IF IsSome(o) THEN Val(o) ELSE default
                requests == IF IsSome(spec.resources)
                            THEN Val(spec.resources).requests ELSE None
                limits == IF IsSome(spec.resources)
                          THEN Val(spec.resources).limits ELSE None
                key(d, k, default) ==
                    IF IsSome(d) /\ IsSome(Val(d)[k]) THEN Val(d)[k]
                    ELSE Some(default)
            IN  /\ body.replicas = given(spec.replicas, 1)
                /\ body.labels.environment = given(spec.environment, "development")
                /\ body.env.ENVIRONMENT = given(spec.environment, "development")
                /\ body.requests.memory = key(requests, "memory", "256Mi")
                /\ body.requests.cpu = key(requests, "cpu", "250m")
                /\ body.limits.memory = key(limits, "memory", "512Mi")
                /\ body.limits.cpu = key(limits, "cpu", "500m")

\* the statement of C29 for the specs whose requests and limits are absent
\* or give both memory and cpu
C29_WholeDictionaries ==
    \A n \in DOMAIN cr :
        ( /\ CreatedBy(n)
          /\ IsSome(Val(cr[n]).spec.resources)
          /\ \E d \in { Val(Val(cr[n]).spec.resources).requests,
                         Val(Val(cr[n]).spec.resources).limits } :
                IsSome(d) /\ (IsNone(Val(d).memory) \/ IsNone(Val(d).cpu)) )
        \/ C29_WorkloadDefaults

\* C30: for every name, the selector of the endpoint, the selector of the
\* workload and the app label of the workload's pod template are all
\* "{name}-inference", and no workload built for another name bears that
\* label.
C30_EndpointSelectsWorkload ==
    \A n \in DOMAIN cr :
        CreatedBy(n) =>
            LET dep == Val(cluster["Deployment"][n \o "-inference"]).body
                svc == Val(cluster["Service"][n \o "-service"]).body
            IN  /\ svc.selector = [app |-> n \o "-inference"]
                /\ dep.selector = svc.selector
                /\ dep.templateLabels.app = svc.selector.app
                /\ \A m \in NameSet \ {n}, spec \in SpecSet :
                      create_inference_deployment(spec, m, Namespace)
                          .templateLabels.app # svc.selector.app

\* the endpoint and the workload of the instance wine, built from a spec
\* that names an environment
C30_Witness ==
    /\ CreatedBy("wine")
    /\ Val(cr["wine"]).spec.environment = Some("production")
    /\ Val(cluster["Service"]["wine-service"]).body.selector.app = "wine-inference"
    /\ Val(cluster["Deployment"]["wine-inference"]).body.templateLabels.app =
          "wine-inference"

\* the index of the call of a pass that was answered by a server error, 0
\* when none was
FaultOf(calls) ==
    IF Faulted(calls) THEN CHOOSE i \in 1..Len(calls) : calls[i].code = 500 ELSE 0

\* C21: an update pass run from the same cluster with the same new spec and
\* the same answers, but given any other old spec, makes the same calls,
\* leaves the same objects in the cluster and returns the same status.
C21_OldSpecUnused ==
    [][ \A n \in DOMAIN cr :
          ( /\ last'.kind = "update" /\ prev' = Summary(last)
            /\ IsSome(cr'[n])
            /\ UpdatePass(n, Val(cr'[n]).spec, FaultOf(last'.calls)) ) =>
            \A old2 \in SpecSet :
               \A other \in {update_model_deployment(cluster, Val(cr'[n]).spec, n,
                                                     Namespace, old2,
                                                     FaultOf(last'.calls))} :
                   /\ other.calls = last'.calls
                   /\ other.cl = cluster'
                   /\ other.ret = last'.ret ]_vars

\* an update pass that changed the replica count and the autoscaling switch
\* of the spec the instance had
C21_Witness ==
    /\ last.kind = "update" /\ EndedRunning
    /\ Val(last.old).replicas # LastSpec.replicas
    /\ Enabled(Val(last.old)) # Enabled(LastSpec)

\* C22: the scenario.  A create pass with the first spec on a cluster without
\* the workload leaves a workload of two replicas, no autoscaler, and returns
\* Running with Ready=True.  The update pass with the second spec that
\* follows it patches the workload and the endpoint, reads the autoscaler,
\* creates it (1 to 5 replicas, target 70), leaves MODEL_VERSION "2" on the
\* workload and returns Running.  A timer pass after that update which reads
\* 1 ready of 2 desired returns one status, phase Updating with Ready=False,
\* replicas 2 and readyReplicas 1, which is then the stored one.
C22_Scenario ==
    LET n == last.name
        dep == Val(cluster["Deployment"][n \o "-inference"]).body
        hpa == cluster["HPA"][n \o "-hpa"]
    IN  /\ ( /\ last.kind = "create" /\ LastSpec = ScenarioCreate
              /\ ~Faulted(last.calls) /\ last.calls[1].code = 201 )
           => ( /\ EndedRunning
                /\ Len(last.calls) = 2
                /\ dep.replicas = 2
                /\ IsNone(hpa) )
        /\ ( /\ last.kind = "update" /\ LastSpec = ScenarioUpdate
              /\ Val(last.old) = ScenarioCreate
              /\ prev.kind = "create" /\ ~prev.failed
              /\ ~Faulted(last.calls) )
           => ( /\ EndedRunning
                /\ status[n].phase = Some("Running")
                /\ [i \in 1..Len(last.calls) |->
                       <<last.calls[i].verb, last.calls[i].kind, last.calls[i].code>>]
                   = << <<"patch", "Deployment", 200>>, <<"patch", "Service", 200>>,
                        <<"read", "HPA", 404>>, <<"create", "HPA", 201>> >>
                /\ dep.env.MODEL_VERSION = "2"
                /\ dep.labels.modelVersion = "2"
                /\ IsSome(hpa)
                /\ Val(hpa).body.minReplicas = 1
                /\ Val(hpa).body.maxReplicas = 5
                /\ Val(hpa).body.targetCPUUtilizationPercentage = 70 )
        /\ ( /\ last.kind = "timer" /\ LastSpec = ScenarioUpdate
              /\ prev.kind = "update" /\ ~prev.failed
              /\ IsSome(last.obs)
              /\ Val(last.obs).desired = 2 /\ Val(last.obs).ready = Some(1) )
           => ( /\ IsSome(last.ret)
                /\ Val(last.ret).phase = Some("Updating")
                /\ Val(last.ret).conditions[1].status = "False"
                /\ Val(last.ret).replicas = Some(2)
                /\ Val(last.ret).readyReplicas = Some(1)
                /\ Val(last.status).phase = Some("Running")
                /\ status[n] = Val(last.ret) )

\* the end of the scenario: the tick after the update moved the stored phase
\* from Running to Updating
C22_Witness ==
    /\ last.kind = "timer" /\ LastSpec = ScenarioUpdate
    /\ prev.kind = "update" /\ ~prev.failed
    /\ IsSome(last.obs)
    /\ Val(last.obs).desired = 2 /\ Val(last.obs).ready = Some(1)
    /\ Val(last.status).phase = Some("Running")
    /\ Val(last.status).deploymentName = Some("iris-inference")
    /\ status[last.name].phase = Some("Updating")
    /\ IsSome(cluster["HPA"]["iris-hpa"])
    /\ Val(cluster["Deployment"]["iris-inference"]).body.env.MODEL_VERSION = "2"

\* the first two steps of the scenario
C22_AfterUpdate ==
    /\ last.kind = "update" /\ LastSpec = ScenarioUpdate
    /\ Val(last.old) = ScenarioCreate
    /\ prev.kind = "create" /\ ~prev.failed
    /\ EndedRunning /\ HasCall("create", {"HPA"}, {201})

\* C23: after a timer pass whose read succeeded the stored replicas and
\* readyReplicas are the desired and ready counts the pass read.
C23_StoredCountsAreObserved ==
    (last.kind = "timer" /\ IsSome(last.obs))
    => /\ status[last.name].replicas = Some(Val(last.obs).desired)
       /\ status[last.name].readyReplicas = Some(Get(Val(last.obs).ready, 0))

\* the statement of C23 for the ready count alone
C23_ReadyIsObserved ==
    (last.kind = "timer" /\ IsSome(last.obs))
    => status[last.name].readyReplicas = Some(Get(Val(last.obs).ready, 0))

\* C24: an update pass without server error, run once more with the same
\* spec, would leave the cluster and the stored status as the first run left
\* them; a delete pass without server error raises nothing, and run once
\* more would raise nothing either, its three deletions answered not-found.
C24_Idempotent ==
    [][ /\ \A n \in Names :
             ( /\ last'.kind = "update" /\ prev' = Summary(last)
               /\ IsSome(cr'[n])
               /\ UpdatePass(n, Val(cr'[n]).spec, 0) ) =>
               \A again \in {update_model_deployment(cluster', Val(cr'[n]).spec, n,
                                                     Namespace, Val(cr'[n]).spec,
                                                     0)} :
                   /\ again.cl = cluster'
                   /\ IsNone(again.raised)
                   /\ StoreStatus(status'[n], again.ret) = status'[n]
        /\ \A n \in Names :
             ( /\ last'.kind = "delete" /\ prev' = Summary(last)
               /\ DeletePass(n, 0) ) =>
               \A again \in {delete_model_deployment(cluster', Val(cr[n]).spec, n,
                                                     Namespace, 0)} :
                   /\ IsNone(last'.raised)
                   /\ IsNone(again.raised)
                   /\ again.cl = cluster'
                   /\ Len(again.calls) = 3
                   /\ \A i \in 1..3 : again.calls[i].code = 404 ]_vars

\* the second of two update passes in a row with the same spec, which
\* patched the autoscaler the first had left
C24_Witness ==
    /\ prev.kind = "update" /\ ~prev.failed
    /\ last.kind = "update" /\ last.name = prev.name
    /\ Val(last.old) = LastSpec
    /\ EndedRunning
    /\ HasCall("patch", {"HPA"}, {200})

\* a delete pass that deleted the three children
C24_Deleted ==
    /\ last.kind = "delete" /\ IsNone(last.raised)
    /\ \A i \in 1..3 : last.calls[i].code = 200

\* the child of the kind that the code names for the instance
Child(kind, name) ==
    CASE kind = "Deployment" -> DeploymentName(name)
      [] kind = "Service" -> ServiceName(name)
      [] OTHER -> HpaName(name)

\* the cluster as the instance sees it alone: its own children, nothing else
OwnView(cl, name) ==
    [k \in Kinds |->
        [r \in ResNames |-> IF r = Child(k, name) THEN cl[k][r] ELSE None]]

\* C25: passes for two instances with different names, interleaved call by
\* call, keep apart.  A call of a pass for instance n addresses a child of n
\* and of no other instance, is answered as it would be were n alone in the
\* cluster, and leaves n's children as it would leave them then; it leaves
\* the children, the spec and the status of every other instance as they
\* were.  The status written when a handler ends is the one instance's.
C25_InstancesIsolated ==
    [][ \A w \in Workers :
          /\ (/\ IsSome(run[w])
              /\ ~Val(run[w]).done
              /\ StepCall(w))
             => LET p == Val(run[w])
                    n == p.name
                    made == Val(run'[w]).calls[Len(p.calls) + 1]
                IN  \A solo \in {Advance(OwnView(cluster, n), p)} :
                       /\ run'[w] = Some(solo.p)
                       /\ OwnView(cluster', n) = solo.cl
                       /\ made.name = Child(made.kind, n)
                       /\ \A m \in DOMAIN cr \ {n} :
                              /\ made.name # Child(made.kind, m)
                              /\ OwnView(cluster', m) = OwnView(cluster, m)
                              /\ cr'[m] = cr[m] /\ status'[m] = status[m]
          /\ (/\ IsSome(run[w])
              /\ Val(run[w]).done
              /\ Finish(w))
             => \A m \in DOMAIN cr \ {Val(run[w]).name} :
                    cr'[m] = cr[m] /\ status'[m] = status[m] ]_vars

\* passes for both instances are in flight, each between two of its calls,
\* and both workloads exist
C25_Witness ==
    /\ \A w \in Workers :
          /\ IsSome(run[w])
          /\ ~Val(run[w]).done
          /\ Len(Val(run[w]).calls) >= 1
    /\ Val(run[1]).name # Val(run[2]).name
    /\ \A n \in DOMAIN cr : Exists(cluster, "Deployment", DeploymentName(n))

\* both instances have ended a pass of their own with all three children
C25_BothComplete ==
    /\ DOMAIN cr = NameSet
    /\ \A n \in NameSet : ChildKinds(cluster, n) = Kinds
    /\ \A n \in NameSet : status[n].phase = Some("Running")

\* no pass is in flight
Quiet == run = NoRun

\* an update pass has ended in Failed, no call answered by a server error
SpuriousFailed == last.kind = "update" /\ FailedPass(last)

\* no pass is in flight and the autoscaler of a live instance is there
\* without being asked for by the spec the instance holds, or asked for and
\* not there
PresenceMismatch ==
    /\ Quiet
    /\ \E n \in DOMAIN cr :
          /\ Live(n)
          /\ Exists(cluster, "HPA", HpaName(n)) # Enabled(Val(cr[n]).spec)

\* C26: the update handler reads the autoscaler and then acts on the answer,
\* with nothing that ties the two calls together.  An update pass that ends
\* in Failed on a cluster that answers every call, and an autoscaler whose
\* presence does not match the spec applied last, occur only when the passes
\* of the instance are not serialized; they do occur then (C26_Witness,
\* C26_Mismatch).
C26_RacesNeedInterleaving ==
    (SpuriousFailed \/ PresenceMismatch) => ~serial

\* two update passes that both ask for the autoscaler read it absent; the
\* one that creates it second is answered 409 and reports Failed, the three
\* children being there
C26_Witness ==
    /\ ~serial
    /\ SpuriousFailed
    /\ last.calls[Len(last.calls)] =
          Call("create", "HPA", Namespace, HpaName(last.name), 409)
    /\ ChildKinds(cluster, last.name) = Kinds

\* the last update pass to end applied a spec with autoscaling on and
\* reported Running, the instance holds a spec with autoscaling off, and the
\* autoscaler is there
C26_Mismatch ==
    /\ ~serial
    /\ PresenceMismatch
    /\ last.kind = "update" /\ ~FailedPass(last)
    /\ Enabled(last.spec) /\ ~Enabled(Val(cr[last.name]).spec)
    /\ Exists(cluster, "HPA", HpaName(last.name))

\* serialized update passes switch the autoscaler on and off
C26_Serialized ==
    /\ serial /\ Quiet
    /\ last.kind = "update" /\ ~FailedPass(last)
    /\ Len(last.calls) = 4 /\ last.calls[4].verb = "delete"

\* C27: a drift check that took its read before an update patched the
\* workload and wrote its status after the update's is put right by the
\* next tick.  Whenever the pass before the last was such a drift check and
\* the last one is a tick that ran with no other pass in flight and read the
\* workload, the stored phase, replicas and readyReplicas are the ones that
\* tick observed.
C27_RaceSelfCorrected ==
    ( /\ prev.kind = "timer" /\ prev.raced
      /\ last.kind = "timer" /\ last.alone
      /\ IsSome(last.obs) )
    => LET seen == Val(last.obs)
           st == status[last.name]
       IN  /\ st.phase = Some(seen.newPhase)
           /\ st.replicas = Some(seen.desired)
           /\ st.readyReplicas = Some(Get(seen.ready, 0))

\* the tick after a drift check that raced an update has run alone
C27_NextTick ==
    /\ prev.kind = "timer" /\ prev.raced
    /\ last.kind = "timer" /\ last.alone
    /\ IsSome(last.obs)

\* the phase and the ready count that tick leaves stored are the observed
\* ones
C27_PhaseAndReadyCorrected ==
    C27_NextTick
    => /\ status[last.name].phase = Some(Val(last.obs).newPhase)
       /\ status[last.name].readyReplicas = Some(Get(Val(last.obs).ready, 0))

\* the stored status of the instance carries both derived child names
NamesStored(st, n) ==
    /\ st.deploymentName = Some(DeploymentName(n))
    /\ st.serviceName = Some(ServiceName(n))

\* C31: once a create pass has succeeded the stored status carries
\* deploymentName = {name}-inference and serviceName = {name}-service, and
\* every status stored afterwards for the instance, while it exists, still
\* carries both: no step takes them out of the stored status.
C31_ChildNamesKept ==
    [][ \A n \in DOMAIN cr :
           (NamesStored(status[n], n) /\ IsSome(cr'[n]))
           => NamesStored(status'[n], n) ]_vars

\* a drift check has replaced the status a successful create pass stored
C31_TimerAfterCreate ==
    /\ prev.kind = "create" /\ ~prev.failed
    /\ last.kind = "timer" /\ last.name = prev.name
    /\ IsSome(last.ret)
    /\ ~NamesStored(status[last.name], last.name)

\* the last pass is the first drift check after a successful create or
\* update pass of the instance, and it read the workload
FirstTick ==
    /\ prev.kind \in {"create", "update"} /\ ~prev.failed
    /\ last.kind = "timer" /\ last.name = prev.name
    /\ IsSome(last.obs)

\* C32: the status a successful create or update pass returns has no
\* readyReplicas, so the first drift check after it that reads the workload
\* returns a status to store, whatever the phase and the counts it observes.
C32_FirstTickWrites ==
    /\ (last.kind \in {"create", "update"} /\ ~FailedPass(last))
       => IsSome(last.ret) /\ IsNone(Val(last.ret).readyReplicas)
    /\ FirstTick => IsSome(last.ret)

\* the first drift check after a create finds every replica ready and the
\* stored phase Running already, and writes
C32_Witness ==
    /\ FirstTick
    /\ Val(last.status).phase = Some("Running")
    /\ Val(last.obs).newPhase = "Running"
    /\ Get(Val(last.obs).ready, 0) >= 1
    /\ IsSome(last.ret)

\* the second drift check in a row writes nothing
C32_SecondTickSilent ==
    /\ prev.kind = "timer" /\ last.kind = "timer"
    /\ IsSome(last.obs) /\ IsNone(last.ret)

\* the workload of the instance has as many ready replicas as it asks for
AllReady(cl, n) ==
    /\ Exists(cl, "Deployment", DeploymentName(n))
    /\ LET deployment == Val(cl["Deployment"][DeploymentName(n)])
       IN  Get(deployment.ready, 0) = deployment.body.replicas

\* C33: a status with phase Running and Ready=True is stored only when the
\* workload's ready replica count equals its desired count: whenever a step
\* stores such a status, the workload it leaves has all its replicas ready.
C33_RunningMeansReady ==
    [][ \A n \in DOMAIN cr :
           ( /\ status'[n] # status[n]
             /\ status'[n].phase = Some("Running")
             /\ Len(status'[n].conditions) = 1
             /\ status'[n].conditions[1].status = "True" )
           => AllReady(cluster', n) ]_vars

\* a create pass has stored Running with Ready=True for a workload that
\* asks for a replica and has none ready
C33_RunningNotReady ==
    /\ last.kind = "create" /\ ~FailedPass(last)
    /\ status[last.name].phase = Some("Running")
    /\ ~AllReady(cluster, last.name)

\* C33 as the code has it: a drift check returns Running only when the ready
\* count it read equals the desired count it read; a create or update pass
\* that succeeds returns Running without a read of the workload, its
\* replicas ready or not.
C33_TimerRunningMeansReady ==
    /\ (last.kind = "timer" /\ IsSome(last.ret) /\ Val(last.ret).phase = Some("Running"))
       => Get(Val(last.obs).ready, 0) = Val(last.obs).desired
    /\ (last.kind \in {"create", "update"} /\ ~FailedPass(last))
       => /\ Val(last.ret).phase = Some("Running")
          /\ \A i \in 1..Len(last.calls) :
                ~(last.calls[i].verb = "read" /\ last.calls[i].kind = "Deployment")

\* a drift check has stored Running for a workload with a replica, all ready
C33_Witness ==
    /\ last.kind = "timer" /\ IsSome(last.ret)
    /\ Val(last.ret).phase = Some("Running")
    /\ Val(last.obs).desired >= 1
    /\ status[last.name] = Val(last.ret)

\* C34: in an update pass whose read found the autoscaler, a 404 on the
\* call that follows is folded too.  After a 404 on the patch the handler
\* has not ended and its next call is the create of the desired autoscaler;
\* when that is answered 201 the pass returns success and the autoscaler is
\* there with the desired manifest.  After a 404 on the delete the handler
\* ends at once with success, no autoscaler being there or desired.
C34_LateNotFoundFolded ==
    [][ \A w \in Workers :
          ( /\ IsSome(run[w])
            /\ Val(run[w]).kind = "update"
            /\ Len(Val(run[w]).calls) >= 3
            /\ Val(run[w]).calls[3].code = 200
            /\ StepCall(w) )
          => LET p == Val(run[w])
                 q == Val(run'[w])
                 n == p.name
                 hpa == create_hpa(p.spec, n, Namespace)
                 made == q.calls[Len(q.calls)]
                 success == /\ q.done /\ IsSome(q.ret)
                            /\ Val(q.ret).phase = Some("Running")
             IN  /\ (Len(p.calls) = 3 /\ made.code = 404 /\ made.verb = "patch")
                    => ~q.done /\ IsSome(hpa)
                 /\ (Len(p.calls) = 3 /\ made.code = 404 /\ made.verb = "delete")
                    => /\ success /\ IsNone(hpa)
                       /\ ~Exists(cluster', "HPA", HpaName(n))
                 /\ Len(p.calls) = 4
                    => /\ p.calls[4] = Call("patch", "HPA", Namespace, HpaName(n), 404)
                       /\ made.verb = "create" /\ made.kind = "HPA"
                       /\ made.code = 201
                          => /\ success
                             /\ cluster'["HPA"][HpaName(n)] = Some(Stored(Val(hpa))) ]_vars

\* an update pass read the autoscaler, was answered 404 on its patch, created
\* the autoscaler and returned Running
C34_Witness ==
    /\ last.kind = "update" /\ ~FailedPass(last)
    /\ Len(last.calls) = 5
    /\ last.calls[3].code = 200
    /\ last.calls[4].verb = "patch" /\ last.calls[4].code = 404
    /\ last.calls[5].verb = "create" /\ last.calls[5].code = 201

\* an update pass read the autoscaler, was answered 404 on its delete and
\* returned Running
C34_LateDelete ==
    /\ last.kind = "update" /\ ~FailedPass(last)
    /\ Len(last.calls) = 4
    /\ last.calls[3].code = 200
    /\ last.calls[4].verb = "delete" /\ last.calls[4].code = 404

\* the version rows of the uploads to the model that succeeded, in order
Succeeded(model_name) ==
    SelectSeq(registry.order, LAMBDA v : v.model = model_name)

C35_NumberReused ==
    /\ serial /\ registry.deleted
    /\ registry.answer.op = "upload" /\ registry.answer.code = 200
    /\ \E m \in ModelNames : Len(Succeeded(m)) > registry.answer.version

\* every version row's object in the bucket holds the content of the upload
\* that made the row
OwnFiles ==
    \A v \in registry.versions :
        GetObject(registry.files, v.file_path) # None
        => GetObject(registry.files, v.file_path) = Some(v.content)

\* C36: also when the handlers of two uploads to a model interleave, no two
\* version rows of one model have the same version number, and no upload
\* has overwritten the stored file of another: the file of every row holds
\* the content of the upload that made the row.
C36_DistinctVersions ==
    /\ \A v1, v2 \in registry.versions :
          (v1.model = v2.model /\ v1.version = v2.version) => v1 = v2
    /\ OwnFiles

\* both uploads read the last version before either committed, both were
\* answered 200, and the model has two rows with one version number and one
\* file
C36_TwoRowsOneNumber ==
    /\ ~serial /\ ~registry.deleted
    /\ \E v1, v2 \in registry.versions :
          /\ v1 # v2
          /\ v1.model = v2.model /\ v1.version = v2.version
          /\ v1.file_path = v2.file_path

\* handled one at a time, uploads are given distinct version numbers
C36_DistinctWhenSerial ==
    serial => \A v1, v2 \in registry.versions :
                 (v1.model = v2.model /\ v1.version = v2.version) => v1 = v2

\* every version row has its object in the bucket
EveryRowHasFile ==
    \A v \in registry.versions : GetObject(registry.files, v.file_path) # None

\* every object in the bucket is the file of a version row
EveryFileHasRow ==
    \A f \in registry.files : \E v \in registry.versions : v.file_path = f.path

\* C37: requests handled one at a time, after any uploads and deletions,
\* the failed ones included, version rows and stored files are in one-to-one
\* correspondence whenever no request is in flight: every row has its file
\* (its download does not answer 500) and every file has a row.
C37_RowsMatchFiles ==
    (serial /\ RegistryQuiet) => EveryRowHasFile /\ EveryFileHasRow

\* an upload failed at the database after its file was stored: a file
\* without a row
C37_OrphanFile ==
    /\ serial /\ RegistryQuiet
    /\ registry.answer.op = "upload" /\ registry.answer.code = 500
    /\ ~EveryFileHasRow

\* a deletion failed at the database after the file was removed: a listed
\* version whose download answers 500
C37_RowWithoutFile ==
    /\ serial /\ RegistryQuiet
    /\ registry.answer.op = "delete" /\ registry.answer.code = 500
    /\ \E m \in ModelNames, k \in 1..MaxUploads :
          [code |-> 500, content |-> None] \in download_model(registry, m, k)

\* the features of the last request form no 2-D array, whatever the library
Flat(features) == Ndim(features) = {1}

\* C38: after any sequence of /predict requests error_count is the number
\* of requests that failed and is at most request_count; the last request,
\* when its features formed no 2-D array and a model was loaded, was
\* answered 400, and when no model was loaded, 503.
C38_CountersExact ==
    /\ server.error_count = server.failed
    /\ server.error_count <= server.request_count
    /\ server.answer.code # 0
       => /\ (server.answer.loaded /\ Flat(server.answer.features))
             => server.answer.code = 400
          /\ ~server.answer.loaded => server.answer.code = 503

\* one request with the empty list of features, a model being loaded: it is
\* answered 500 and counted as two errors
C38_CountedTwice ==
    /\ server.request_count = 1
    /\ server.answer.code = 500 /\ server.answer.loaded
    /\ server.answer.features = <<>>
    /\ get_metrics(server).errors_total = 2

\* every request adds one to request_count, and a request made while no
\* model is loaded is answered 503 and counted as one error
C38_RequestsCounted ==
    [][ server'.request_count # server.request_count
        => /\ server'.request_count = server.request_count + 1
           /\ IsNone(server.model)
              => /\ server'.answer.code = 503
                 /\ server'.error_count = server.error_count + 1 ]_vars

====
